---- MODULE Spec2Model ----
(***************************************************************************)
(* Model of the parallel-deck alignment engine of the Translation          *)
(* repository (src/app/services/alignment.py): slide fingerprinting, the   *)
(* greedy slide matcher, the oracle (LLM) adapter with its fallbacks, and  *)
(* the sentence matcher with its structural fallback.                      *)
(*                                                                         *)
(* Python floats are modelled as exact rationals <<n, d>> with d > 0; the  *)
(* comparisons the code makes are made by cross-multiplication.  Texts are *)
(* sequences of words (what str.split() returns); oracle responses are     *)
(* sequences of one-character strings, so that lower(), replace(), strip() *)
(* and the substring tests of the parsers are computed, not assumed.       *)
(***************************************************************************)
EXTENDS Integers, Sequences, FiniteSets, TLC

(***************************************************************************)
(* Bounds of the model.                                                    *)
(***************************************************************************)
MaxSlides == 2

MaxTexts == 3

MaxLines == 2

(***************************************************************************)
(* Program constants.                                                      *)
(***************************************************************************)
max_offset == 10

TopCandidates == 3

(***************************************************************************)
(* Exact rationals.                                                        *)
(***************************************************************************)
R(n, d) == <<n, d>>

RInt(n) == <<n, 1>>

RLt(a, b) == a[1] * b[2] < b[1] * a[2]

RLe(a, b) == a[1] * b[2] <= b[1] * a[2]

REq(a, b) == a[1] * b[2] = b[1] * a[2]

RAdd(a, b) == <<a[1] * b[2] + b[1] * a[2], a[2] * b[2]>>

RSub(a, b) == <<a[1] * b[2] - b[1] * a[2], a[2] * b[2]>>

RMul(a, b) == <<a[1] * b[1], a[2] * b[2]>>

\* a / b for b > 0
RDiv(a, b) == <<a[1] * b[2], a[2] * b[1]>>

RAbs(a) == IF a[1] < 0 THEN <<0 - a[1], a[2]>> ELSE a

RMax(a, b) == IF RLt(a, b) THEN b ELSE a

RECURSIVE Gcd(_, _)
Gcd(a, b) == IF b = 0 THEN a ELSE Gcd(b, a % b)

\* A rational in lowest terms, so that equal values are equal states.
RNorm(a) ==
    LET n == IF a[1] < 0 THEN 0 - a[1] ELSE a[1]
        g == Gcd(n, a[2])
    IN  IF a[1] = 0 THEN <<0, 1>> ELSE <<a[1] \div g, a[2] \div g>>

Abs(i) == IF i < 0 THEN 0 - i ELSE i

Min2(a, b) == IF a < b THEN a ELSE b

Max2(a, b) == IF a < b THEN b ELSE a

(***************************************************************************)
(* Texts.  A text is the sequence of its whitespace-separated words.       *)
(***************************************************************************)
\* Words in which re.search(r'\d+') finds a digit.
DigitWords == {"10%", "1.", "2024"}

\* Words matched whole by [\-\*\d]+\.? : a following blank makes the text
\* bullet-like.  "10%" is not one: the "%" stops the match before the blank.
BulletWords == {"-", "*", "1.", "2024"}

WordCount(t) == Len(t)

HasDigit(t) == \E i \in 1..Len(t) : t[i] \in DigitWords

HasBullet(t) == Len(t) >= 2 /\ t[1] \in BulletWords

\* "Hello world", "Revenue grew 10%"
EnHello == <<"Hello", "world">>

EnRevenue == <<"Revenue", "grew", "10%">>

\* The Arabic counterparts, transliterated; same word counts and numerals.
ArHello == <<"marhaban", "bialealam">>

ArRevenue == <<"namat", "al-iiradat", "10%">>

\* A long numbered paragraph of 21 words.
ArLong == [i \in 1..21 |-> IF i = 1 THEN "1." ELSE "kalima"]

\* A title of one word and a sentence of five, in both languages.
EnTitle == <<"Overview">>

EnFive == <<"Sales", "rose", "in", "all", "regions">>

ArTitle == <<"muqaddima">>

ArFive == <<"airtafaeat", "almabieat", "fi", "jamie", "almanatiq">>

EnPhrases == {EnHello, EnRevenue}

ArPhrases == {ArHello, ArRevenue, ArLong}

RECURSIVE SeqsUpTo(_, _)
SeqsUpTo(S, n) ==
    IF n = 0 THEN {<<>>}
    ELSE LET shorter == SeqsUpTo(S, n - 1)
         IN  shorter \cup {Append(s, x) : s \in shorter, x \in S}

SlideIds == 1..MaxSlides

\* The phrase lists of a slide: none (every text of the slide was filtered
\* out by extract_texts_by_slide) or one phrase.
SlideTexts(Phrases) == {<<>>} \cup {<<p>> : p \in Phrases}

\* A corpus: slide number -> phrase list, for some of the slides.
Corpora(Phrases) ==
    UNION {[ids -> SlideTexts(Phrases)] : ids \in SUBSET SlideIds}

(***************************************************************************)
(* Fingerprinter and similarity scorer.                                    *)
(***************************************************************************)
RECURSIVE SumWords(_)
SumWords(texts) ==
    IF texts = <<>> THEN 0 ELSE WordCount(Head(texts)) + SumWords(Tail(texts))

ShortTexts(texts) ==
    Cardinality({i \in 1..Len(texts) : WordCount(texts[i]) <= 5})

MediumTexts(texts) ==
    Cardinality({i \in 1..Len(texts) :
                    5 < WordCount(texts[i]) /\ WordCount(texts[i]) <= 20})

LongTexts(texts) ==
    Cardinality({i \in 1..Len(texts) : WordCount(texts[i]) > 20})

\* Mutant: the "if not texts" case is missing, so that an empty phrase list
\* gets an ordinary fingerprint of zeros.
get_slide_fingerprint_NoEmptyCase(texts) ==
    [empty |-> FALSE,
     text_count |-> Len(texts),
     total_words |-> SumWords(texts),
     has_numbers |-> \E i \in 1..Len(texts) : HasDigit(texts[i]),
     has_bullets |-> \E i \in 1..Len(texts) : HasBullet(texts[i]),
     short_texts |-> ShortTexts(texts),
     medium_texts |-> MediumTexts(texts),
     long_texts |-> LongTexts(texts)]

\* total_chars is computed by the code and never read; it is left out.
get_slide_fingerprint(texts) ==
    IF texts = <<>> THEN [empty |-> TRUE]
    ELSE [empty |-> FALSE,
          text_count |-> Len(texts),
          total_words |-> SumWords(texts),
          has_numbers |-> \E i \in 1..Len(texts) : HasDigit(texts[i]),
          has_bullets |-> \E i \in 1..Len(texts) : HasBullet(texts[i]),
          short_texts |-> ShortTexts(texts),
          medium_texts |-> MediumTexts(texts),
          long_texts |-> LongTexts(texts)]

\* The weighted score with the text count branches of lines 116-119
\* exchanged: 2 for equal counts, 3 for a difference of one or two.
weighted_similarity_CountSwapped(fp1, fp2) ==
    LET count_diff == Abs(fp1.text_count - fp2.text_count)
        count_score == IF count_diff = 0 THEN 2
                       ELSE IF count_diff <= 2 THEN 3
                       ELSE IF count_diff <= 5 THEN 1 ELSE 0
        max_words == Max2(fp1.total_words, fp2.total_words)
        word_score == IF max_words > 0
                      THEN R(2 * Min2(fp1.total_words, fp2.total_words), max_words)
                      ELSE RInt(0)
        numbers_score == IF fp1.has_numbers = fp2.has_numbers THEN 1 ELSE 0
        bullets_score == IF fp1.has_bullets = fp2.has_bullets THEN 1 ELSE 0
        dist_match ==
            (IF Abs(fp1.short_texts - fp2.short_texts) <= 1 THEN 1 ELSE 0)
          + (IF Abs(fp1.medium_texts - fp2.medium_texts) <= 1 THEN 1 ELSE 0)
          + (IF Abs(fp1.long_texts - fp2.long_texts) <= 1 THEN 1 ELSE 0)
        score == RAdd(RAdd(RInt(count_score + numbers_score + bullets_score),
                           word_score),
                      R(2 * dist_match, 3))
        max_score == 3 + 2 + 1 + 1 + 2
    IN  RNorm(RMul(score, R(1, max_score)))

\* Lines 110-148: the weighted score of two fingerprints that are not empty.
weighted_similarity(fp1, fp2) ==
    LET count_diff == Abs(fp1.text_count - fp2.text_count)
        count_score == IF count_diff = 0 THEN 3
                       ELSE IF count_diff <= 2 THEN 2
                       ELSE IF count_diff <= 5 THEN 1 ELSE 0
        max_words == Max2(fp1.total_words, fp2.total_words)
        word_score == IF max_words > 0
                      THEN R(2 * Min2(fp1.total_words, fp2.total_words), max_words)
                      ELSE RInt(0)
        numbers_score == IF fp1.has_numbers = fp2.has_numbers THEN 1 ELSE 0
        bullets_score == IF fp1.has_bullets = fp2.has_bullets THEN 1 ELSE 0
        dist_match ==
            (IF Abs(fp1.short_texts - fp2.short_texts) <= 1 THEN 1 ELSE 0)
          + (IF Abs(fp1.medium_texts - fp2.medium_texts) <= 1 THEN 1 ELSE 0)
          + (IF Abs(fp1.long_texts - fp2.long_texts) <= 1 THEN 1 ELSE 0)
        score == RAdd(RAdd(RInt(count_score + numbers_score + bullets_score),
                           word_score),
                      R(2 * dist_match, 3))
        max_score == 3 + 2 + 1 + 1 + 2
    IN  RNorm(RMul(score, R(1, max_score)))

fingerprint_similarity_EmptyAlike(fp1, fp2) ==
    IF fp1.empty /\ fp2.empty THEN RInt(1)
    ELSE IF fp1.empty \/ fp2.empty THEN RInt(0)
    ELSE weighted_similarity(fp1, fp2)

fingerprint_similarity(fp1, fp2) ==
    IF fp1.empty \/ fp2.empty THEN RInt(0)
    ELSE weighted_similarity(fp1, fp2)

\* The fingerprint of every phrase list of the model, computed once.
FingerprintOf ==
    [texts \in SlideTexts(EnPhrases) \cup SlideTexts(ArPhrases) |->
        get_slide_fingerprint(texts)]

\* en_fingerprints / ar_fingerprints (lines 167-168)
fingerprint(texts) ==
    IF texts \in DOMAIN FingerprintOf THEN FingerprintOf[texts]
    ELSE get_slide_fingerprint(texts)

\* fingerprint_similarity on the phrase lists of the model, computed once.
SimilarityOf ==
    [pair \in SlideTexts(EnPhrases) \X SlideTexts(ArPhrases) |->
        fingerprint_similarity(fingerprint(pair[1]), fingerprint(pair[2]))]

\* fingerprint_similarity(get_slide_fingerprint(a), get_slide_fingerprint(b))
slide_similarity(en_texts, ar_texts) ==
    IF <<en_texts, ar_texts>> \in DOMAIN SimilarityOf
    THEN SimilarityOf[<<en_texts, ar_texts>>]
    ELSE fingerprint_similarity(fingerprint(en_texts), fingerprint(ar_texts))

(***************************************************************************)
(* Strings of the oracle protocol, as sequences of characters.             *)
(***************************************************************************)
UpperLetters ==
    <<"A", "B", "C", "D", "E", "F", "G", "H", "I", "J", "K", "L", "M",
      "N", "O", "P", "Q", "R", "S", "T", "U", "V", "W", "X", "Y", "Z">>

LowerLetters ==
    <<"a", "b", "c", "d", "e", "f", "g", "h", "i", "j", "k", "l", "m",
      "n", "o", "p", "q", "r", "s", "t", "u", "v", "w", "x", "y", "z">>

LowerChar(c) ==
    IF \E i \in 1..26 : UpperLetters[i] = c
    THEN LowerLetters[CHOOSE i \in 1..26 : UpperLetters[i] = c]
    ELSE c

\* str.lower()
Lower(s) == [i \in 1..Len(s) |-> LowerChar(s[i])]

IsNotSpace(c) == c # " "

\* str.replace(" ", "")
RemoveSpaces(s) == SelectSeq(s, IsNotSpace)

Whitespace == {" ", "\n", "\t"}

RECURSIVE LStrip(_)
LStrip(s) ==
    IF s # <<>> /\ Head(s) \in Whitespace THEN LStrip(Tail(s)) ELSE s

RECURSIVE RStrip(_)
RStrip(s) ==
    IF s # <<>> /\ s[Len(s)] \in Whitespace
    THEN RStrip(SubSeq(s, 1, Len(s) - 1)) ELSE s

\* str.strip()
Strip(s) == RStrip(LStrip(s))

\* The positions at which pat occurs in s.
Occurrences(s, pat) ==
    {i \in 1..(Len(s) - Len(pat) + 1) : SubSeq(s, i, i + Len(pat) - 1) = pat}

\* pat in s
Contains(s, pat) == Occurrences(s, pat) # {}

\* s.split(pat)[-1], for a pat that occurs in s
AfterLast(s, pat) ==
    LET last == CHOOSE i \in Occurrences(s, pat) :
                    \A j \in Occurrences(s, pat) : j <= i
    IN  SubSeq(s, last + Len(pat), Len(s))

\* 'MATCH: yes'
kw_MATCH_yes_upper ==
    <<"M", "A", "T", "C", "H", ":", " ", "y", "e", "s">>

\* 'match:yes'
kw_match_yes ==
    <<"m", "a", "t", "c", "h", ":", "y", "e", "s">>

\* 'CONFIDENCE: high'
kw_CONFIDENCE_high_upper ==
    <<"C", "O", "N", "F", "I", "D", "E", "N", "C", "E", ":", " ", "h", "i",
      "g", "h">>

\* 'confidence:high'
kw_confidence_high ==
    <<"c", "o", "n", "f", "i", "d", "e", "n", "c", "e", ":", "h", "i", "g",
      "h">>

\* 'CONFIDENCE: medium'
kw_CONFIDENCE_medium_upper ==
    <<"C", "O", "N", "F", "I", "D", "E", "N", "C", "E", ":", " ", "m", "e",
      "d", "i", "u", "m">>

\* 'confidence:medium'
kw_confidence_medium ==
    <<"c", "o", "n", "f", "i", "d", "e", "n", "c", "e", ":", "m", "e", "d",
      "i", "u", "m">>

\* 'CONFIDENCE: low'
kw_CONFIDENCE_low_upper ==
    <<"C", "O", "N", "F", "I", "D", "E", "N", "C", "E", ":", " ", "l", "o",
      "w">>

\* 'confidence:low'
kw_confidence_low ==
    <<"c", "o", "n", "f", "i", "d", "e", "n", "c", "e", ":", "l", "o", "w">>

\* 'REASON:'
kw_REASON ==
    <<"R", "E", "A", "S", "O", "N", ":">>

\* 'MATCH: yes\nCONFIDENCE: high\nREASON: same topic'
RespYesHigh ==
    <<"M", "A", "T", "C", "H", ":", " ", "y", "e", "s", "\n", "C", "O",
      "N", "F", "I", "D", "E", "N", "C", "E", ":", " ", "h", "i", "g", "h",
      "\n", "R", "E", "A", "S", "O", "N", ":", " ", "s", "a", "m", "e",
      " ", "t", "o", "p", "i", "c">>

\* 'MATCH: yes\nCONFIDENCE: medium\nREASON: similar'
RespYesMedium ==
    <<"M", "A", "T", "C", "H", ":", " ", "y", "e", "s", "\n", "C", "O",
      "N", "F", "I", "D", "E", "N", "C", "E", ":", " ", "m", "e", "d", "i",
      "u", "m", "\n", "R", "E", "A", "S", "O", "N", ":", " ", "s", "i",
      "m", "i", "l", "a", "r">>

\* 'MATCH: yes\nCONFIDENCE: low'
RespYesLow ==
    <<"M", "A", "T", "C", "H", ":", " ", "y", "e", "s", "\n", "C", "O",
      "N", "F", "I", "D", "E", "N", "C", "E", ":", " ", "l", "o", "w">>

\* 'MATCH: yes'
RespYesPlain ==
    <<"M", "A", "T", "C", "H", ":", " ", "y", "e", "s">>

\* 'MATCH: no\nCONFIDENCE: high\nREASON: unrelated'
RespNoHigh ==
    <<"M", "A", "T", "C", "H", ":", " ", "n", "o", "\n", "C", "O", "N",
      "F", "I", "D", "E", "N", "C", "E", ":", " ", "h", "i", "g", "h",
      "\n", "R", "E", "A", "S", "O", "N", ":", " ", "u", "n", "r", "e",
      "l", "a", "t", "e", "d">>

\* '  \n'
RespBlank ==
    <<" ", " ", "\n">>

\* 'Similar structure (fingerprint fallback)'
reason_similar_fallback ==
    <<"S", "i", "m", "i", "l", "a", "r", " ", "s", "t", "r", "u", "c", "t",
      "u", "r", "e", " ", "(", "f", "i", "n", "g", "e", "r", "p", "r", "i",
      "n", "t", " ", "f", "a", "l", "l", "b", "a", "c", "k", ")">>

\* 'Different structure (fingerprint fallback)'
reason_different_fallback ==
    <<"D", "i", "f", "f", "e", "r", "e", "n", "t", " ", "s", "t", "r", "u",
      "c", "t", "u", "r", "e", " ", "(", "f", "i", "n", "g", "e", "r", "p",
      "r", "i", "n", "t", " ", "f", "a", "l", "l", "b", "a", "c", "k", ")">>

(***************************************************************************)
(* Oracle adapter.                                                         *)
(***************************************************************************)
\* What call_llm returns: None, or the stripped message content.
NoResult == [some |-> FALSE, text |-> <<>>]

Text(s) == [some |-> TRUE, text |-> s]

\* What the HTTP exchange of one oracle call can do.
Failures ==
    {[kind |-> "timeout", content |-> <<>>],
     [kind |-> "http_error", content |-> <<>>],
     [kind |-> "malformed_body", content |-> <<>>]}

Reply(content) == [kind |-> "ok", content |-> content]

\* Mutant: the key is not looked at.
call_llm_KeyUnchecked(configured, exchange) ==
    IF exchange.kind = "ok" THEN Text(Strip(exchange.content))
    ELSE NoResult

\* requests.post raises on a transport failure, raise_for_status on a
\* non-success status, the subscripts on a body without the nested content;
\* all are caught and give None.
call_llm(configured, exchange) ==
    IF ~configured THEN NoResult
    ELSE IF exchange.kind = "ok" THEN Text(Strip(exchange.content))
    ELSE NoResult

\* "not result": None or the empty string
IsFalsy(result) == ~result.some \/ result.text = <<>>

conf_high == R(9, 10)

conf_medium == R(6, 10)

\* Mutant: 'low' reads as 0.2, the confidence of a rejection.
conf_low_OneFifth == R(2, 10)

conf_low == R(3, 10)

conf_default == R(5, 10)

\* Lines 291-303: the reading of a non-empty oracle reply.
parse_slide_reply(text) ==
    LET low == Lower(text)
        packed == RemoveSpaces(low)
        is_match == Contains(low, kw_MATCH_yes_upper)
                    \/ Contains(packed, kw_match_yes)
        confidence ==
            IF Contains(low, kw_CONFIDENCE_high_upper)
               \/ Contains(packed, kw_confidence_high) THEN conf_high
            ELSE IF Contains(low, kw_CONFIDENCE_medium_upper)
               \/ Contains(packed, kw_confidence_medium) THEN conf_medium
            ELSE IF Contains(low, kw_CONFIDENCE_low_upper)
               \/ Contains(packed, kw_confidence_low) THEN conf_low
            ELSE conf_default
        reason == IF Contains(text, kw_REASON)
                  THEN Strip(AfterLast(text, kw_REASON)) ELSE text
    IN  [is_match |-> is_match, confidence |-> confidence, reason |-> reason]

\* The HTTP exchanges the slide-correspondence prompt can meet.
SlideExchanges ==
    Failures \cup
    {Reply(r) : r \in {RespYesHigh, RespYesLow, RespYesPlain, RespNoHigh,
                       RespBlank}}

\* What call_llm can return for the slide-correspondence prompt.
SlideResults ==
    [configured \in BOOLEAN |->
        {call_llm(configured, exchange) : exchange \in SlideExchanges}]

\* parse_slide_reply on the replies of the model, computed once.
SlideReplyReading ==
    [r \in {x \in SlideResults[TRUE] : ~IsFalsy(x)} |->
        parse_slide_reply(r.text)]

\* Mutant: the fallback accepts from similarity 0.5 on.
slide_fallback_Threshold05(en_texts, ar_texts) ==
    LET fp_sim == fingerprint_similarity(get_slide_fingerprint(en_texts),
                                         get_slide_fingerprint(ar_texts))
    IN  IF RLe(R(5, 10), fp_sim)
        THEN [is_match |-> TRUE, confidence |-> R(5, 10),
              reason |-> reason_similar_fallback]
        ELSE [is_match |-> FALSE, confidence |-> R(2, 10),
              reason |-> reason_different_fallback]

\* Lines 279-289: the fingerprint fallback when the oracle gave nothing.
slide_fallback(en_texts, ar_texts) ==
    LET fp_sim == slide_similarity(en_texts, ar_texts)
    IN  IF RLe(R(6, 10), fp_sim)
        THEN [is_match |-> TRUE, confidence |-> R(5, 10),
              reason |-> reason_similar_fallback]
        ELSE [is_match |-> FALSE, confidence |-> R(2, 10),
              reason |-> reason_different_fallback]

\* validate_slide_correspondence, given what call_llm returned.
validate_slide_correspondence(en_texts, ar_texts, result) ==
    IF IsFalsy(result)
    THEN slide_fallback(en_texts, ar_texts)
    ELSE IF result \in DOMAIN SlideReplyReading
    THEN SlideReplyReading[result]
    ELSE parse_slide_reply(result.text)

(***************************************************************************)
(* Slide matcher: find_best_slide_matches as a state machine.              *)
(***************************************************************************)
VARIABLES
    api_configured,   \* API_URL and API_KEY are set (translator.py 9-10)
    english_slides,   \* the source corpus
    arabic_slides,    \* the target corpus
    pc,               \* where find_best_slide_matches stands
    en_pos,           \* index into en_slide_nums of the slide in hand
    candidates,       \* candidates[:3] of the slide in hand, sorted
    cand_pos,         \* index of the next candidate to judge
    best_match,       \* best_match (NoMatch for None)
    best_confidence,  \* best_confidence
    judged,           \* the calls of validate_slide_correspondence made for
                      \* the slide in hand: the pair, whether call_llm gave
                      \* a result, and what was returned
    processed,        \* the source slides the loop has taken up, in order
    mappings,         \* mappings
    used_ar_slides    \* used_ar_slides

\* match_by_structure
VARIABLES
    ms_pc,            \* where match_by_structure stands
    ms_en_texts,      \* its argument en_texts
    ms_ar_texts,      \* its argument ar_texts
    ms_en_idx,        \* en_idx of the outer loop (0-based, as in the code)
    ms_used_ar,       \* used_ar
    ms_matches        \* matches

\* match_sentences_within_slides
VARIABLES
    sm_pc,            \* where match_sentences_within_slides stands
    sm_en_texts,      \* its argument en_texts
    sm_ar_texts,      \* its argument ar_texts
    sm_result,        \* result, what call_llm returned
    sm_lines,         \* result.strip().split("\n")
    sm_line_pos,      \* index of the next line to read
    sm_matches        \* matches

\* call_llm
VARIABLES
    llm_pc,           \* where call_llm stands
    llm_exchange,     \* what the HTTP exchange does when it is made
    llm_result        \* the value returned

\* validate_candidates
VARIABLES
    vc_pc,            \* where validate_candidates stands
    vc_candidates,    \* its argument candidates, updated in place
    vc_pos,           \* index of the candidate in hand
    vc_run,           \* 1 in the first call on the list, 2 in the second
    vc_calls          \* the calls of call_llm made, as <<run, index of
                      \* the candidate, what the exchange did>>

\* The dictionary file (data/dictionary.json) and the calls on it
VARIABLES
    dict_entries,     \* data["entries"] as last saved
    dict_call,        \* the last add_entry / add_entries_bulk call made
    dict_before,      \* data["entries"] when that call loaded the file
    dict_repeated     \* that call had the arguments of the call before it

\* build_dictionary_from_parallel_pptx, from its step 2 on
VARIABLES
    bd_pc,            \* where the function stands
    bd_validate,      \* its argument validate
    bd_candidates,    \* candidates
    bd_valid_entries, \* valid_entries
    bd_added_count    \* added_count

\* fingerprint_similarity
VARIABLES
    fs_pc,            \* where the function stands
    fs_fp1,           \* its argument fp1
    fs_fp2,           \* its argument fp2
    fs_score          \* the value returned

slide_vars == <<english_slides, arabic_slides, pc, en_pos, candidates,
                cand_pos, best_match, best_confidence, judged, processed,
                mappings, used_ar_slides>>

structure_vars == <<ms_pc, ms_en_texts, ms_ar_texts, ms_en_idx, ms_used_ar,
                    ms_matches>>

sentence_vars == <<sm_pc, sm_en_texts, sm_ar_texts, sm_result, sm_lines,
                   sm_line_pos, sm_matches>>

oracle_vars == <<llm_pc, llm_exchange, llm_result>>

validate_vars == <<vc_pc, vc_candidates, vc_pos, vc_run, vc_calls>>

dictionary_vars == <<dict_entries, dict_call, dict_before, dict_repeated>>

build_vars == <<bd_pc, bd_validate, bd_candidates, bd_valid_entries,
                bd_added_count>>

similarity_vars == <<fs_pc, fs_fp1, fs_fp2, fs_score>>

\* The reading of two oracle responses that differ only in the writing of
\* the keywords.
VARIABLES
    pr_pc,            \* "idle", "call" or "returned"
    pr_kind,          \* "slide" or "pair": the function that reads
    pr_first,         \* the response in the format of the prompt
    pr_second,        \* the same response with the keywords written otherwise
    pr_out1,          \* what the function returned for pr_first
    pr_out2           \* what the function returned for pr_second

parse_vars == <<pr_pc, pr_kind, pr_first, pr_second, pr_out1, pr_out2>>

\* translate_text and its cache (translator.py).
VARIABLES
    tr_pc,            \* "idle", "ready" before the first call, "returned"
    tr_cache,         \* _translation_cache: stripped text -> translation
    tr_text,          \* the argument of the last call of translate_text
    tr_returned,      \* what that call returned
    tr_store          \* the dictionary entries at the time of that call

translate_vars == <<tr_pc, tr_cache, tr_text, tr_returned, tr_store>>

\* mirror_shape_position on one shape (pptx_translator.py).
VARIABLES
    mr_pc,            \* "idle" or "shape"
    mr_slide_width,   \* the argument slide_width
    mr_positioned,    \* shape.left and shape.width are numbers, not None
    mr_left,          \* shape.left
    mr_width,         \* shape.width
    mr_original_left, \* shape.left before the first call
    mr_count          \* the calls made on the shape

mirror_vars == <<mr_pc, mr_slide_width, mr_positioned, mr_left, mr_width,
                 mr_original_left, mr_count>>

vars == <<api_configured, slide_vars, structure_vars, sentence_vars,
          oracle_vars, validate_vars, dictionary_vars, build_vars,
          parse_vars,
          translate_vars,
          mirror_vars,
          similarity_vars>>

\* The variables of a function that is not running.
SlideIdle ==
    /\ english_slides = <<>>
    /\ arabic_slides = <<>>
    /\ pc = "idle"
    /\ en_pos = 1
    /\ candidates = <<>>
    /\ cand_pos = 1
    /\ best_match = 0
    /\ best_confidence = RInt(0)
    /\ judged = <<>>
    /\ processed = <<>>
    /\ mappings = <<>>
    /\ used_ar_slides = {}

OracleIdle ==
    /\ llm_pc = "idle"
    /\ llm_exchange = [kind |-> "none", content |-> <<>>]
    /\ llm_result = NoResult

ValidateIdle ==
    /\ vc_pc = "idle"
    /\ vc_candidates = <<>>
    /\ vc_pos = 1
    /\ vc_run = 1
    /\ vc_calls = <<>>

NoCall == [op |-> "none", batch |-> <<>>, returned |-> 0]

DictionaryIdle ==
    /\ dict_entries = <<>>
    /\ dict_call = NoCall
    /\ dict_before = <<>>
    /\ dict_repeated = FALSE

BuildIdle ==
    /\ bd_pc = "idle"
    /\ bd_validate = TRUE
    /\ bd_candidates = <<>>
    /\ bd_valid_entries = <<>>
    /\ bd_added_count = 0

ParseIdle ==
    /\ pr_pc = "idle"
    /\ pr_kind = "none"
    /\ pr_first = <<>>
    /\ pr_second = <<>>
    /\ pr_out1 = <<>>
    /\ pr_out2 = <<>>

TranslateIdle ==
    /\ tr_pc = "idle"
    /\ tr_cache = <<>>
    /\ tr_text = <<>>
    /\ tr_returned = <<>>
    /\ tr_store = <<>>

MirrorIdle ==
    /\ mr_pc = "idle"
    /\ mr_slide_width = 0
    /\ mr_positioned = FALSE
    /\ mr_left = 0
    /\ mr_width = 0
    /\ mr_original_left = 0
    /\ mr_count = 0

SimilarityIdle ==
    /\ fs_pc = "idle"
    /\ fs_fp1 = <<>>
    /\ fs_fp2 = <<>>
    /\ fs_score = RInt(0)

SentencesIdle ==
    /\ sm_pc = "idle"
    /\ sm_en_texts = <<>>
    /\ sm_ar_texts = <<>>
    /\ sm_result = NoResult
    /\ sm_lines = <<>>
    /\ sm_line_pos = 1
    /\ sm_matches = <<>>

StructureIdle ==
    /\ ms_pc = "idle"
    /\ ms_en_texts = <<>>
    /\ ms_ar_texts = <<>>
    /\ ms_en_idx = 0
    /\ ms_used_ar = {}
    /\ ms_matches = <<>>

NoMatch == 0

RECURSIVE SortedSeq(_)
\* sorted(keys)
SortedSeq(S) ==
    IF S = {} THEN <<>>
    ELSE LET m == CHOOSE x \in S : \A y \in S : x <= y
         IN  <<m>> \o SortedSeq(S \ {m})

RECURSIVE DescendingSeq(_)
DescendingSeq(S) ==
    IF S = {} THEN <<>>
    ELSE LET m == CHOOSE x \in S : \A y \in S : y <= x
         IN  <<m>> \o DescendingSeq(S \ {m})

\* Mutant: the source slides are not taken in ascending order.
en_slide_nums_Descending(en_slides) == DescendingSeq(DOMAIN en_slides)

en_slide_nums(en_slides) == SortedSeq(DOMAIN en_slides)

ar_slide_nums(ar_slides) == SortedSeq(DOMAIN ar_slides)

position_bonus(en_num, ar_num) ==
    RMul(RMax(RInt(0), RSub(RInt(1), R(Abs(en_num - ar_num), max_offset))),
         R(2, 10))

combined_score(en_num, en_texts, ar_num, ar_texts) ==
    RNorm(RAdd(slide_similarity(en_texts, ar_texts),
               position_bonus(en_num, ar_num)))

\* Mutant: the "ar_num in used_ar_slides" test is missing.
ScoreCandidates_IgnoresUsed(en_num, en_slides, ar_slides, used) ==
    LET Admitted(ar_num) ==
            /\ ~get_slide_fingerprint(ar_slides[ar_num]).empty
            /\ RLt(R(3, 10),
                   RAdd(fingerprint_similarity(
                            get_slide_fingerprint(en_slides[en_num]),
                            get_slide_fingerprint(ar_slides[ar_num])),
                        R(2 * Max2(0, max_offset - Abs(en_num - ar_num)),
                          10 * max_offset)))
        nums == SelectSeq(SortedSeq(DOMAIN ar_slides), Admitted)
    IN  [i \in 1..Len(nums) |->
            [ar_num |-> nums[i],
             combined_score |->
                 RNorm(RAdd(fingerprint_similarity(
                                get_slide_fingerprint(en_slides[en_num]),
                                get_slide_fingerprint(ar_slides[nums[i]])),
                            R(2 * Max2(0, max_offset - Abs(en_num - nums[i])),
                              10 * max_offset)))]]

\* Lines 184-208: the admitted targets, in ascending slide order.
ScoreCandidates(en_num, en_slides, ar_slides, used) ==
    LET Admitted(ar_num) ==
            /\ ar_num \notin used
            /\ ~fingerprint(ar_slides[ar_num]).empty
            /\ RLt(R(3, 10), combined_score(en_num, en_slides[en_num],
                                            ar_num, ar_slides[ar_num]))
        nums == SelectSeq(ar_slide_nums(ar_slides), Admitted)
    IN  [i \in 1..Len(nums) |->
            [ar_num |-> nums[i],
             combined_score |-> combined_score(en_num, en_slides[en_num],
                                               nums[i], ar_slides[nums[i]])]]

RemoveAt(s, i) == SubSeq(s, 1, i - 1) \o SubSeq(s, i + 1, Len(s))

\* Mutant: the candidates stay in ascending slide order.
SortByScore_Unsorted(cands) == cands

RECURSIVE SortByScore(_)
\* candidates.sort(key=combined_score, reverse=True): stable, so equal
\* scores keep their ascending slide order.
SortByScore(cands) ==
    IF cands = <<>> THEN <<>>
    ELSE LET i == CHOOSE i \in 1..Len(cands) :
                    /\ \A j \in 1..Len(cands) :
                           ~RLt(cands[i].combined_score, cands[j].combined_score)
                    /\ \A j \in 1..(i - 1) :
                           RLt(cands[j].combined_score, cands[i].combined_score)
         IN  <<cands[i]>> \o SortByScore(RemoveAt(cands, i))

\* candidates[:3]
TopOf(cands) == SubSeq(cands, 1, Min2(TopCandidates, Len(cands)))

Init ==
    /\ api_configured \in BOOLEAN
    /\ english_slides \in Corpora(EnPhrases)
    /\ arabic_slides \in Corpora(ArPhrases)
    /\ pc = "next_slide"
    /\ en_pos = 1
    /\ candidates = <<>>
    /\ cand_pos = 1
    /\ best_match = NoMatch
    /\ best_confidence = RInt(0)
    /\ judged = <<>>
    /\ processed = <<>>
    /\ mappings = <<>>
    /\ used_ar_slides = {}
    /\ StructureIdle
    /\ SentencesIdle
    /\ OracleIdle
    /\ ValidateIdle
    /\ DictionaryIdle
    /\ BuildIdle
    /\ SimilarityIdle
    /\ MirrorIdle
    /\ TranslateIdle
    /\ ParseIdle

CurrentEn == en_slide_nums(english_slides)[en_pos]

\* Lines 176-181: a source slide with the empty fingerprint is passed over.
SkipEmptySlide ==
    /\ pc = "next_slide"
    /\ en_pos <= Len(en_slide_nums(english_slides))
    /\ fingerprint(english_slides[CurrentEn]).empty
    /\ en_pos' = en_pos + 1
    /\ processed' = Append(processed, CurrentEn)
    /\ UNCHANGED <<api_configured, english_slides, arabic_slides, pc,
                   candidates, cand_pos, best_match, best_confidence, judged,
                   mappings, used_ar_slides>>
    /\ UNCHANGED <<structure_vars, sentence_vars, oracle_vars,
                   validate_vars, dictionary_vars, build_vars,
                   parse_vars,
                   translate_vars,
                   mirror_vars,
                   similarity_vars>>

\* Lines 176-215: the candidates of the next source slide are scored, sorted
\* and cut to the top three.
BeginSlide ==
    /\ pc = "next_slide"
    /\ en_pos <= Len(en_slide_nums(english_slides))
    /\ ~fingerprint(english_slides[CurrentEn]).empty
    /\ candidates' = TopOf(SortByScore(ScoreCandidates(
                         CurrentEn, english_slides, arabic_slides,
                         used_ar_slides)))
    /\ cand_pos' = 1
    /\ best_match' = NoMatch
    /\ best_confidence' = RInt(0)
    /\ judged' = <<>>
    /\ processed' = Append(processed, CurrentEn)
    /\ pc' = "judge"
    /\ UNCHANGED <<api_configured, english_slides, arabic_slides, en_pos,
                   mappings, used_ar_slides>>
    /\ UNCHANGED <<structure_vars, sentence_vars, oracle_vars,
                   validate_vars, dictionary_vars, build_vars,
                   parse_vars,
                   translate_vars,
                   mirror_vars,
                   similarity_vars>>

\* Mutant: the is_match test is missing.
IsBetter_IgnoresIsMatch(j, best) == RLt(best, j.confidence)

\* Mutant: ">=" for ">", so that a later candidate of equal confidence wins.
IsBetter_NotStrict(j, best) == j.is_match /\ RLe(best, j.confidence)

\* Line 225: a confirmed candidate replaces the best one only when its
\* confidence is strictly higher.
IsBetter(j, best) == j.is_match /\ RLt(best, j.confidence)

\* Lines 217-227: one candidate is put to the oracle.
JudgeCandidate ==
    /\ pc = "judge"
    /\ cand_pos <= Len(candidates)
    /\ \E result \in SlideResults[api_configured] :
         LET ar_num == candidates[cand_pos].ar_num
             j == validate_slide_correspondence(
                      english_slides[CurrentEn], arabic_slides[ar_num], result)
             better == IsBetter(j, best_confidence)
         IN  /\ best_match' = IF better THEN ar_num ELSE best_match
             /\ best_confidence' = IF better THEN j.confidence
                                   ELSE best_confidence
             /\ judged' = Append(judged,
                                 [en_num |-> CurrentEn, ar_num |-> ar_num,
                                  answered |-> ~IsFalsy(result),
                                  is_match |-> j.is_match,
                                  confidence |-> j.confidence,
                                  reason |-> j.reason])
    /\ cand_pos' = cand_pos + 1
    /\ UNCHANGED <<api_configured, english_slides, arabic_slides, pc, en_pos,
                   candidates, processed, mappings, used_ar_slides>>
    /\ UNCHANGED <<structure_vars, sentence_vars, oracle_vars,
                   validate_vars, dictionary_vars, build_vars,
                   parse_vars,
                   translate_vars,
                   mirror_vars,
                   similarity_vars>>

\* Lines 229-238: the best confirmed candidate, if any, is committed.
CommitSlide ==
    /\ pc = "judge"
    /\ cand_pos > Len(candidates)
    /\ IF best_match # NoMatch /\ RLe(R(3, 10), best_confidence)
       THEN /\ mappings' = Append(mappings,
                                  [en_slide |-> CurrentEn,
                                   ar_slide |-> best_match,
                                   confidence |-> best_confidence,
                                   en_texts |-> english_slides[CurrentEn],
                                   ar_texts |-> arabic_slides[best_match]])
            /\ used_ar_slides' = used_ar_slides \cup {best_match}
       ELSE UNCHANGED <<mappings, used_ar_slides>>
    /\ en_pos' = en_pos + 1
    /\ pc' = "next_slide"
    /\ UNCHANGED <<api_configured, english_slides, arabic_slides, candidates,
                   cand_pos, best_match, best_confidence, judged, processed>>
    /\ UNCHANGED <<structure_vars, sentence_vars, oracle_vars,
                   validate_vars, dictionary_vars, build_vars,
                   parse_vars,
                   translate_vars,
                   mirror_vars,
                   similarity_vars>>

\* Line 240.
ReturnMappings ==
    /\ pc = "next_slide"
    /\ en_pos > Len(en_slide_nums(english_slides))
    /\ pc' = "returned"
    /\ UNCHANGED <<api_configured, english_slides, arabic_slides, en_pos,
                   candidates, cand_pos, best_match, best_confidence, judged,
                   processed, mappings, used_ar_slides>>
    /\ UNCHANGED <<structure_vars, sentence_vars, oracle_vars,
                   validate_vars, dictionary_vars, build_vars,
                   parse_vars,
                   translate_vars,
                   mirror_vars,
                   similarity_vars>>

Next ==
    \/ SkipEmptySlide
    \/ BeginSlide
    \/ JudgeCandidate
    \/ CommitSlide
    \/ ReturnMappings

Spec == Init /\ [][Next]_vars

(***************************************************************************)
(* Properties of the slide matcher.                                        *)
(***************************************************************************)
ArNums(seq) == {seq[i].ar_num : i \in 1..Len(seq)}

\* The source slide the loop took up last, and the judgments made for it.
LastProcessed == processed[Len(processed)]

JudgedForLast ==
    IF judged # <<>> /\ judged[1].en_num = LastProcessed THEN judged ELSE <<>>

MappingsOf(en_num) ==
    {i \in 1..Len(mappings) : mappings[i].en_slide = en_num}

\* C1: the mappings are a partial injective function from source slides to
\* target slides: no target slide id and no source slide id appears in two
\* mappings, at any point of the run and in the returned list.
C1_MappingsInjective ==
    \A i, j \in 1..Len(mappings) :
        i # j => /\ mappings[i].ar_slide # mappings[j].ar_slide
                 /\ mappings[i].en_slide # mappings[j].en_slide

\* Both source slides are mapped, the first one to target slide 2, which the
\* second source slide therefore could not take.
C1_Witness ==
    /\ pc = "returned"
    /\ Len(mappings) = 2
    /\ mappings[1].ar_slide = 2
    /\ mappings[2].ar_slide = 1

\* C2, in every state: source slides are taken up in ascending id order, and
\* a target committed to an earlier source slide is not among the candidates
\* of the slide in hand, is not judged for it and is not its best match.
C2_EarlierCommitsExcluded ==
    /\ \A i, j \in 1..Len(processed) : i < j => processed[i] < processed[j]
    /\ \A i, j \in 1..Len(mappings) :
           i < j => mappings[i].en_slide < mappings[j].en_slide
    /\ pc = "judge" =>
           \A i \in 1..Len(mappings) :
               /\ mappings[i].en_slide < CurrentEn
               /\ mappings[i].ar_slide \notin ArNums(candidates)
               /\ mappings[i].ar_slide \notin ArNums(judged)
               /\ mappings[i].ar_slide # best_match

\* C2, in every step: the committed mappings are only ever extended.
C2_CommitsKept ==
    /\ Len(mappings') >= Len(mappings)
    /\ SubSeq(mappings', 1, Len(mappings)) = mappings

\* C2: find_best_slide_matches processes source slides in ascending id
\* order; every target already committed to a smaller source slide is
\* excluded from the candidates of the slide being processed (neither judged
\* nor selected); a committed mapping is never changed or removed later.
C2_NoBacktracking == [](C2_EarlierCommitsExcluded) /\ [][C2_CommitsKept]_vars

\* The second source slide is being judged while the target committed to the
\* first one would have been admitted for it, had it not been used.
C2_Witness ==
    /\ pc = "judge"
    /\ Len(mappings) = 1
    /\ cand_pos > 1
    /\ RLt(R(3, 10),
           combined_score(CurrentEn, english_slides[CurrentEn],
                          mappings[1].ar_slide,
                          arabic_slides[mappings[1].ar_slide]))

\* C3: once a source slide has been dealt with, its committed target (if
\* any) is a judged candidate with isMatch true and confidence >= 0.3, the
\* mapping carries that confidence, and no judged candidate of the slide
\* with isMatch true has a strictly higher confidence; with no judged
\* candidate having isMatch true the slide is unmapped.
C3_CommittedIsBestConfirmed ==
    (pc \in {"next_slide", "returned"} /\ processed # <<>>) =>
        LET log == JudgedForLast
            confirmed == {k \in 1..Len(log) : log[k].is_match}
        IN  /\ \A i \in MappingsOf(LastProcessed) :
                   /\ \E k \in confirmed :
                          /\ log[k].ar_num = mappings[i].ar_slide
                          /\ log[k].confidence = mappings[i].confidence
                   /\ RLe(R(3, 10), mappings[i].confidence)
                   /\ \A k \in confirmed :
                          RLe(log[k].confidence, mappings[i].confidence)
            /\ confirmed = {} => MappingsOf(LastProcessed) = {}

\* A slide was committed to a confirmed candidate of confidence 0.3 although
\* a judged candidate that the oracle rejected had confidence 0.9.
C3_Witness ==
    /\ pc = "next_slide"
    /\ processed # <<>>
    /\ \E i \in MappingsOf(LastProcessed) :
           REq(mappings[i].confidence, R(3, 10))
    /\ \E k \in 1..Len(JudgedForLast) :
           /\ ~JudgedForLast[k].is_match
           /\ REq(JudgedForLast[k].confidence, R(9, 10))

\* C4: when call_llm gives no result, validate_slide_correspondence returns
\* isMatch = true with confidence 0.5 exactly when the fingerprint similarity
\* of the two phrase lists is >= 0.6, isMatch = false with confidence 0.2
\* otherwise, and the reason says that the fingerprint fallback decided.
C4_FallbackDecision ==
    \A k \in 1..Len(judged) :
        ~judged[k].answered =>
            LET sim == fingerprint_similarity(
                           get_slide_fingerprint(english_slides[judged[k].en_num]),
                           get_slide_fingerprint(arabic_slides[judged[k].ar_num]))
            IN  /\ judged[k].is_match <=> RLe(R(6, 10), sim)
                /\ judged[k].is_match => REq(judged[k].confidence, R(1, 2))
                /\ ~judged[k].is_match => REq(judged[k].confidence, R(1, 5))
                /\ judged[k].reason = IF judged[k].is_match
                                      THEN reason_similar_fallback
                                      ELSE reason_different_fallback

\* With the API configured, one oracle call of a slide failed and the
\* fallback rejected the pair, another failed and the fallback accepted.
C4_Witness ==
    /\ api_configured
    /\ \E k \in 1..Len(judged) : ~judged[k].answered /\ ~judged[k].is_match
    /\ \E k \in 1..Len(judged) : ~judged[k].answered /\ judged[k].is_match

\* Scenario A of the specification.
ScenarioA_english == (1 :> <<EnHello>>) @@ (2 :> <<EnRevenue>>)

ScenarioA_arabic == (1 :> <<ArHello>>) @@ (2 :> <<ArRevenue>>)

ScenarioA ==
    /\ ~api_configured
    /\ english_slides = ScenarioA_english
    /\ arabic_slides = ScenarioA_arabic

\* C5: scenario A, oracle unconfigured, yields exactly two SlideMappings
\* (1 -> 1 and 2 -> 2), each with confidence 0.5.
C5_ScenarioA_Mappings ==
    (ScenarioA /\ pc = "returned") =>
        /\ Len(mappings) = 2
        /\ \A i \in 1..2 :
               /\ mappings[i].en_slide = i
               /\ mappings[i].ar_slide = i
               /\ REq(mappings[i].confidence, R(1, 2))

C5_Witness == ScenarioA /\ pc = "returned" /\ mappings # <<>>

\* C7: a slide with an empty phrase list is never put to the oracle and
\* never appears in a mapping, as source or as target.
C7_EmptySlidesUntouched ==
    /\ \A k \in 1..Len(judged) :
           /\ english_slides[judged[k].en_num] # <<>>
           /\ arabic_slides[judged[k].ar_num] # <<>>
    /\ \A k \in 1..Len(candidates) :
           arabic_slides[candidates[k].ar_num] # <<>>
    /\ \A i \in 1..Len(mappings) :
           /\ english_slides[mappings[i].en_slide] # <<>>
           /\ arabic_slides[mappings[i].ar_slide] # <<>>
           /\ mappings[i].en_texts # <<>>
           /\ mappings[i].ar_texts # <<>>

\* Both corpora hold an empty slide next to a slide that was mapped.
C7_Witness ==
    /\ pc = "returned"
    /\ \E n \in DOMAIN english_slides : english_slides[n] = <<>>
    /\ \E n \in DOMAIN arabic_slides : arabic_slides[n] = <<>>
    /\ mappings # <<>>


(***************************************************************************)
(* Structural matcher: match_by_structure as a state machine, one step per *)
(* iteration of its outer loop.                                            *)
(***************************************************************************)
\* best_ar_idx = None
NoIndex == -1

ratio_low == R(4, 10)

ratio_high == R(16, 10)

structure_floor == R(3, 10)

structure_scaling_Unscaled == RInt(1)

structure_scaling == R(4, 10)

\* ratio = ar_words / en_words
word_ratio(en_words, ar_words) == R(ar_words, en_words)

structure_score_Optimum1(ratio) ==
    RSub(RInt(1), RDiv(RAbs(RSub(ratio, RInt(1))), R(7, 10)))

\* score = 1 - abs(ratio - 0.9) / 0.7
structure_score(ratio) ==
    RSub(RInt(1), RDiv(RAbs(RSub(ratio, R(9, 10))), R(7, 10)))

\* One iteration of the inner loop: the new <<best_ar_idx, best_score>>.
ScanTarget_IgnoresUsed(en_words, ar_texts, used_ar, ar_idx, best) ==
    LET ar_words == WordCount(ar_texts[ar_idx + 1])
        ratio == word_ratio(en_words, ar_words)
    IN  IF ~(en_words > 0 /\ ar_words > 0) THEN best
        ELSE IF ~(RLe(ratio_low, ratio) /\ RLe(ratio, ratio_high)) THEN best
        ELSE IF RLt(best[2], structure_score(ratio))
             THEN <<ar_idx, structure_score(ratio)>>
             ELSE best

ScanTarget(en_words, ar_texts, used_ar, ar_idx, best) ==
    LET ar_words == WordCount(ar_texts[ar_idx + 1])
        ratio == word_ratio(en_words, ar_words)
    IN  IF ar_idx \in used_ar THEN best
        ELSE IF ~(en_words > 0 /\ ar_words > 0) THEN best
        ELSE IF ~(RLe(ratio_low, ratio) /\ RLe(ratio, ratio_high)) THEN best
        ELSE IF RLt(best[2], structure_score(ratio))
             THEN <<ar_idx, structure_score(ratio)>>
             ELSE best

\* The inner loop from ar_idx on.
RECURSIVE ScanTargets(_, _, _, _, _)
ScanTargets(en_words, ar_texts, used_ar, ar_idx, best) ==
    IF ar_idx >= Len(ar_texts) THEN best
    ELSE ScanTargets(en_words, ar_texts, used_ar, ar_idx + 1,
                     ScanTarget(en_words, ar_texts, used_ar, ar_idx, best))

\* The body of the outer loop for en_idx: the new <<matches, used_ar>>.
StructureIteration(en_texts, ar_texts, en_idx, used_ar, matches) ==
    LET en_text == en_texts[en_idx + 1]
        en_words == WordCount(en_text)
        best == ScanTargets(en_words, ar_texts, used_ar, 0,
                            <<NoIndex, RInt(0)>>)
        best_ar_idx == best[1]
        best_score == best[2]
    IN  IF best_ar_idx # NoIndex /\ RLt(structure_floor, best_score)
        THEN <<Append(matches,
                      [english |-> en_text,
                       arabic |-> ar_texts[best_ar_idx + 1],
                       en_index |-> en_idx,
                       ar_index |-> best_ar_idx,
                       confidence |->
                           RNorm(RMul(best_score, structure_scaling)),
                       match_method |-> "structure_fallback"]),
               used_ar \cup {best_ar_idx}>>
        ELSE <<matches, used_ar>>

\* The outer loop from en_idx on, run to its end: what the function returns.
RECURSIVE StructureLoop(_, _, _, _, _)
StructureLoop(en_texts, ar_texts, en_idx, used_ar, matches) ==
    IF en_idx >= Len(en_texts) THEN matches
    ELSE LET step == StructureIteration(en_texts, ar_texts, en_idx,
                                        used_ar, matches)
         IN  StructureLoop(en_texts, ar_texts, en_idx + 1, step[2], step[1])

match_by_structure(en_texts, ar_texts) ==
    StructureLoop(en_texts, ar_texts, 0, {}, <<>>)

StructureEnTexts == {EnTitle, EnHello, EnRevenue, EnFive}

StructureArTexts == {ArTitle, ArHello, ArRevenue, ArFive}

StructureInit ==
    /\ api_configured = FALSE
    /\ SlideIdle
    /\ SentencesIdle
    /\ OracleIdle
    /\ ValidateIdle
    /\ DictionaryIdle
    /\ BuildIdle
    /\ SimilarityIdle
    /\ MirrorIdle
    /\ TranslateIdle
    /\ ParseIdle
    /\ ms_pc = "loop"
    /\ ms_en_texts \in SeqsUpTo(StructureEnTexts, MaxTexts)
    /\ ms_ar_texts \in SeqsUpTo(StructureArTexts, MaxTexts)
    /\ ms_en_idx = 0
    /\ ms_used_ar = {}
    /\ ms_matches = <<>>

StructureStep ==
    /\ ms_pc = "loop"
    /\ ms_en_idx < Len(ms_en_texts)
    /\ LET step == StructureIteration(ms_en_texts, ms_ar_texts, ms_en_idx,
                                      ms_used_ar, ms_matches)
       IN  /\ ms_matches' = step[1]
           /\ ms_used_ar' = step[2]
    /\ ms_en_idx' = ms_en_idx + 1
    /\ UNCHANGED <<ms_pc, ms_en_texts, ms_ar_texts>>
    /\ UNCHANGED <<api_configured, slide_vars, sentence_vars, oracle_vars,
                   validate_vars, dictionary_vars, build_vars,
                   parse_vars,
                   translate_vars,
                   mirror_vars,
                   similarity_vars>>

StructureReturn ==
    /\ ms_pc = "loop"
    /\ ms_en_idx >= Len(ms_en_texts)
    /\ ms_pc' = "returned"
    /\ UNCHANGED <<ms_en_texts, ms_ar_texts, ms_en_idx, ms_used_ar,
                   ms_matches>>
    /\ UNCHANGED <<api_configured, slide_vars, sentence_vars, oracle_vars,
                   validate_vars, dictionary_vars, build_vars,
                   parse_vars,
                   translate_vars,
                   mirror_vars,
                   similarity_vars>>

StructureNext ==
    \/ StructureStep
    \/ StructureReturn

SpecStructure == StructureInit /\ [][StructureNext]_vars


(***************************************************************************)
(* Properties of the structural matcher.                                   *)
(***************************************************************************)
\* C8: in the list built by one call of match_by_structure, for any two
\* phrase lists, no target index appears in two matches.
C8_TargetsClaimedOnce ==
    \A i, j \in 1..Len(ms_matches) :
        i # j => ms_matches[i].ar_index # ms_matches[j].ar_index

\* The call returned two matches for two equal source phrases, which rate
\* every target alike.
C8_Witness ==
    /\ ms_pc = "returned"
    /\ Len(ms_matches) >= 2
    /\ ms_matches[1].english = ms_matches[2].english

\* The score of a target of ar_words words for a source of en_words words.
C9_Score(en_words, ar_words) ==
    RSub(RInt(1),
         RMul(RAbs(RSub(R(ar_words, en_words), R(9, 10))), R(10, 7)))

\* The not-yet-claimed targets whose word-count ratio to the source phrase
\* in hand is in [0.4, 1.6].
C9_Claimable ==
    LET en_words == Len(ms_en_texts[ms_en_idx + 1])
    IN  {j \in 0..(Len(ms_ar_texts) - 1) :
            /\ j \notin ms_used_ar
            /\ 4 * en_words <= 10 * Len(ms_ar_texts[j + 1])
            /\ 10 * Len(ms_ar_texts[j + 1]) <= 16 * en_words}

C9_StepAsSpecified ==
    (ms_pc = "loop" /\ ms_en_idx < Len(ms_en_texts)) =>
        LET en_text == ms_en_texts[ms_en_idx + 1]
            Score(j) == C9_Score(Len(en_text), Len(ms_ar_texts[j + 1]))
        IN  /\ ms_en_idx' = ms_en_idx + 1
            /\ IF \E j \in C9_Claimable : RLt(R(3, 10), Score(j))
               THEN \E j \in C9_Claimable :
                        /\ \A k \in C9_Claimable : RLe(Score(k), Score(j))
                        /\ Len(ms_matches') = Len(ms_matches) + 1
                        /\ SubSeq(ms_matches', 1, Len(ms_matches))
                               = ms_matches
                        /\ LET m == ms_matches'[Len(ms_matches')]
                           IN  /\ m.en_index = ms_en_idx
                               /\ m.ar_index = j
                               /\ m.english = en_text
                               /\ m.arabic = ms_ar_texts[j + 1]
                               /\ REq(m.confidence,
                                      RMul(Score(j), R(4, 10)))
                               /\ m.match_method = "structure_fallback"
                        /\ ms_used_ar' = ms_used_ar \cup {j}
               ELSE /\ ms_matches' = ms_matches
                    /\ ms_used_ar' = ms_used_ar

kw_arrow ==
    <<"-", ">">>

\* '('
kw_paren ==
    <<"(">>

\* the line feed
kw_newline ==
    <<"\n">>

\* 'NO_MATCHES'
kw_NO_MATCHES ==
    <<"N", "O", "_", "M", "A", "T", "C", "H", "E", "S">>

\* 'high'
kw_high ==
    <<"h", "i", "g", "h">>

\* 'medium'
kw_medium ==
    <<"m", "e", "d", "i", "u", "m">>

\* 'low'
kw_low ==
    <<"l", "o", "w">>

\* 'EN:1 -> AR:1 (confidence: high)'
Line_1_1_high ==
    <<"E", "N", ":", "1", " ", "-", ">", " ", "A", "R", ":", "1", " ", "(",
      "c", "o", "n", "f", "i", "d", "e", "n", "c", "e", ":", " ", "h", "i",
      "g", "h", ")">>

\* 'EN:1 -> AR:2 (confidence: medium)'
Line_1_2_medium ==
    <<"E", "N", ":", "1", " ", "-", ">", " ", "A", "R", ":", "2", " ", "(",
      "c", "o", "n", "f", "i", "d", "e", "n", "c", "e", ":", " ", "m", "e",
      "d", "i", "u", "m", ")">>

\* 'EN:2 -> AR:1 (confidence: low)'
Line_2_1_low ==
    <<"E", "N", ":", "2", " ", "-", ">", " ", "A", "R", ":", "1", " ", "(",
      "c", "o", "n", "f", "i", "d", "e", "n", "c", "e", ":", " ", "l", "o",
      "w", ")">>

\* 'EN:2 -> AR:2'
Line_2_2_plain ==
    <<"E", "N", ":", "2", " ", "-", ">", " ", "A", "R", ":", "2">>

\* 'EN:0 -> AR:1 (confidence: high)'
Line_0_1_high ==
    <<"E", "N", ":", "0", " ", "-", ">", " ", "A", "R", ":", "1", " ", "(",
      "c", "o", "n", "f", "i", "d", "e", "n", "c", "e", ":", " ", "h", "i",
      "g", "h", ")">>

\* 'EN:1 -> AR:12 (confidence: high)'
Line_1_12_high ==
    <<"E", "N", ":", "1", " ", "-", ">", " ", "A", "R", ":", "1", "2", " ",
      "(", "c", "o", "n", "f", "i", "d", "e", "n", "c", "e", ":", " ", "h",
      "i", "g", "h", ")">>

\* 'Here are the matches:'
Line_prose ==
    <<"H", "e", "r", "e", " ", "a", "r", "e", " ", "t", "h", "e", " ", "m",
      "a", "t", "c", "h", "e", "s", ":">>

\* 'EN:first -> AR:1'
Line_no_number ==
    <<"E", "N", ":", "f", "i", "r", "s", "t", " ", "-", ">", " ", "A", "R",
      ":", "1">>

\* 'EN:2 -> AR:(1)'
Line_paren ==
    <<"E", "N", ":", "2", " ", "-", ">", " ", "A", "R", ":", "(", "1", ")">>

Digits == <<"0", "1", "2", "3", "4", "5", "6", "7", "8", "9">>

IsDigit(c) == \E i \in 1..10 : Digits[i] = c

DigitValue(c) == (CHOOSE i \in 1..10 : Digits[i] = c) - 1

\* int() of a run of digits
RECURSIVE IntOf(_)
IntOf(digits) ==
    IF digits = <<>> THEN 0
    ELSE 10 * IntOf(SubSeq(digits, 1, Len(digits) - 1))
         + DigitValue(digits[Len(digits)])

FirstDigits_OneDigit(s) ==
    LET starts == {i \in 1..Len(s) : IsDigit(s[i])}
    IN  IF starts = {} THEN <<>>
        ELSE <<s[CHOOSE i \in starts : \A j \in starts : i <= j]>>

\* re.search(r'\d+', s): the first maximal run of digits, <<>> for None
FirstDigits(s) ==
    LET starts == {i \in 1..Len(s) : IsDigit(s[i])}
    IN  IF starts = {} THEN <<>>
        ELSE LET first == CHOOSE i \in starts : \A j \in starts : i <= j
                 last == CHOOSE k \in first..Len(s) :
                             /\ \A j \in first..k : IsDigit(s[j])
                             /\ k = Len(s) \/ ~IsDigit(s[k + 1])
             IN  SubSeq(s, first, last)

\* s.split(pat), for a pat that cannot overlap itself
RECURSIVE Split(_, _)
Split(s, pat) ==
    IF ~Contains(s, pat) THEN <<s>>
    ELSE LET first == CHOOSE i \in Occurrences(s, pat) :
                          \A j \in Occurrences(s, pat) : i <= j
         IN  <<SubSeq(s, 1, first - 1)>>
             \o Split(SubSeq(s, first + Len(pat), Len(s)), pat)


\* "\n".join(lines)
RECURSIVE JoinLines(_)
JoinLines(lines) ==
    IF lines = <<>> THEN <<>>
    ELSE IF Len(lines) = 1 THEN lines[1]
    ELSE lines[1] \o kw_newline \o JoinLines(Tail(lines))

\* Mutant: the sentinel is not looked for.
uses_structure_NoSentinel(result) == IsFalsy(result)

\* Lines 354-356: if not result or "NO_MATCHES" in result
uses_structure(result) ==
    IsFalsy(result) \/ Contains(result.text, kw_NO_MATCHES)

LineSkipped == [parsed |-> FALSE, en_idx |-> 0, ar_idx |-> 0,
                confidence |-> conf_default]

\* Lines 374-380: the confidence named by a line
line_confidence(line) ==
    IF Contains(Lower(line), kw_high) THEN conf_high
    ELSE IF Contains(Lower(line), kw_medium) THEN conf_medium
    ELSE IF Contains(Lower(line), kw_low) THEN conf_low
    ELSE conf_default

\* Lines 361-380 and 391-392: the reading of one stripped line.  A line
\* without the arrow is passed over; a part without a numeral makes
\* re.search return None, and the AttributeError is caught.
parse_match_line(line) ==
    IF ~Contains(line, kw_arrow) THEN LineSkipped
    ELSE LET parts == Split(line, kw_arrow)
             en_part == Strip(parts[1])
             ar_part == Strip(parts[2])
             en_digits == FirstDigits(en_part)
             ar_digits == FirstDigits(Split(ar_part, kw_paren)[1])
         IN  IF en_digits = <<>> \/ ar_digits = <<>> THEN LineSkipped
             ELSE [parsed |-> TRUE,
                   en_idx |-> IntOf(en_digits) - 1,
                   ar_idx |-> IntOf(ar_digits) - 1,
                   confidence |-> line_confidence(line)]

\* What the oracle may answer to the phrase-alignment prompt: up to MaxLines
\* lines, each a correspondence, a correspondence with an index outside the
\* lists, a line that cannot be read, prose, or the sentinel.
SentenceLines ==
    {Line_1_1_high, Line_1_2_medium, Line_2_1_low, Line_2_2_plain,
     Line_0_1_high, Line_1_12_high, Line_prose, Line_no_number, Line_paren,
     kw_NO_MATCHES}

SentenceExchanges ==
    Failures
    \cup {Reply(JoinLines(lines)) : lines \in SeqsUpTo(SentenceLines, MaxLines)}

SentenceResults ==
    [configured \in BOOLEAN |->
        {call_llm(configured, exchange) : exchange \in SentenceExchanges}]

\* The readings, computed once per result and per line.
SentenceResultReading ==
    [result \in SentenceResults[TRUE] \cup SentenceResults[FALSE] |->
        [structure |-> uses_structure(result),
         lines |-> Split(Strip(result.text), kw_newline)]]

SentenceLineReading ==
    [line \in {Strip(l) : l \in SentenceLines} |-> parse_match_line(line)]

read_match_line(line) ==
    IF line \in DOMAIN SentenceLineReading THEN SentenceLineReading[line]
    ELSE parse_match_line(line)

\* The phrase lists of a matched slide pair: up to two phrases.
SentenceLists(Phrases) ==
    {<<>>} \cup {<<p>> : p \in Phrases}
           \cup {<<p, q>> : p \in Phrases, q \in Phrases}

SentencesInit ==
    /\ api_configured \in BOOLEAN
    /\ SlideIdle
    /\ StructureIdle
    /\ OracleIdle
    /\ ValidateIdle
    /\ DictionaryIdle
    /\ BuildIdle
    /\ SimilarityIdle
    /\ MirrorIdle
    /\ TranslateIdle
    /\ ParseIdle
    /\ sm_pc = "start"
    /\ sm_en_texts \in SentenceLists(EnPhrases)
    /\ sm_ar_texts \in SentenceLists({ArHello, ArRevenue})
    /\ sm_result = NoResult
    /\ sm_lines = <<>>
    /\ sm_line_pos = 1
    /\ sm_matches = <<>>

\* Lines 318-319: if not en_texts or not ar_texts: return []
SentencesEmpty ==
    /\ sm_pc = "start"
    /\ sm_en_texts = <<>> \/ sm_ar_texts = <<>>
    /\ sm_pc' = "returned"
    /\ UNCHANGED <<sm_en_texts, sm_ar_texts, sm_result, sm_lines,
                   sm_line_pos, sm_matches>>
    /\ UNCHANGED <<api_configured, slide_vars, structure_vars, oracle_vars,
                   validate_vars, dictionary_vars, build_vars,
                   parse_vars,
                   translate_vars,
                   mirror_vars,
                   similarity_vars>>

\* Lines 350-356: the call of the oracle and the choice of the path.
SentencesAsk ==
    /\ sm_pc = "start"
    /\ sm_en_texts # <<>> /\ sm_ar_texts # <<>>
    /\ \E result \in SentenceResults[api_configured] :
        /\ sm_result' = result
        /\ IF SentenceResultReading[result].structure
           THEN /\ sm_pc' = "structure"
                /\ sm_lines' = <<>>
           ELSE /\ sm_pc' = "parse"
                /\ sm_lines' = SentenceResultReading[result].lines
    /\ UNCHANGED <<sm_en_texts, sm_ar_texts, sm_line_pos, sm_matches>>
    /\ UNCHANGED <<api_configured, slide_vars, structure_vars, oracle_vars,
                   validate_vars, dictionary_vars, build_vars,
                   parse_vars,
                   translate_vars,
                   mirror_vars,
                   similarity_vars>>

\* Line 356: return match_by_structure(en_texts, ar_texts)
SentencesStructure ==
    /\ sm_pc = "structure"
    /\ sm_matches' = match_by_structure(sm_en_texts, sm_ar_texts)
    /\ sm_pc' = "returned"
    /\ UNCHANGED <<sm_en_texts, sm_ar_texts, sm_result, sm_lines,
                   sm_line_pos>>
    /\ UNCHANGED <<api_configured, slide_vars, structure_vars, oracle_vars,
                   validate_vars, dictionary_vars, build_vars,
                   parse_vars,
                   translate_vars,
                   mirror_vars,
                   similarity_vars>>

\* Line 382: the test the indices of a read line must pass.
index_in_bounds(idx, texts) == 0 <= idx /\ idx < Len(texts)

\* Lines 359-392: one iteration of the loop over the lines.
SentencesParseLine ==
    /\ sm_pc = "parse"
    /\ sm_line_pos <= Len(sm_lines)
    /\ LET line == Strip(sm_lines[sm_line_pos])
           read == read_match_line(line)
       IN  sm_matches' =
               IF /\ read.parsed
                  /\ index_in_bounds(read.en_idx, sm_en_texts)
                  /\ index_in_bounds(read.ar_idx, sm_ar_texts)
               THEN Append(sm_matches,
                           [english |-> sm_en_texts[read.en_idx + 1],
                            arabic |-> sm_ar_texts[read.ar_idx + 1],
                            en_index |-> read.en_idx,
                            ar_index |-> read.ar_idx,
                            confidence |-> read.confidence,
                            match_method |-> "llm_semantic"])
               ELSE sm_matches
    /\ sm_line_pos' = sm_line_pos + 1
    /\ UNCHANGED <<sm_pc, sm_en_texts, sm_ar_texts, sm_result, sm_lines>>
    /\ UNCHANGED <<api_configured, slide_vars, structure_vars, oracle_vars,
                   validate_vars, dictionary_vars, build_vars,
                   parse_vars,
                   translate_vars,
                   mirror_vars,
                   similarity_vars>>

\* Line 394: return matches
SentencesReturn ==
    /\ sm_pc = "parse"
    /\ sm_line_pos > Len(sm_lines)
    /\ sm_pc' = "returned"
    /\ UNCHANGED <<sm_en_texts, sm_ar_texts, sm_result, sm_lines,
                   sm_line_pos, sm_matches>>
    /\ UNCHANGED <<api_configured, slide_vars, structure_vars, oracle_vars,
                   validate_vars, dictionary_vars, build_vars,
                   parse_vars,
                   translate_vars,
                   mirror_vars,
                   similarity_vars>>

SentencesNext ==
    \/ SentencesEmpty
    \/ SentencesAsk
    \/ SentencesStructure
    \/ SentencesParseLine
    \/ SentencesReturn

SpecSentences == SentencesInit /\ [][SentencesNext]_vars


(***************************************************************************)
(* Properties of the sentence matcher.                                     *)
(***************************************************************************)
\* A matched slide pair of scenario A: one source phrase and one target
\* phrase of equal word counts, the oracle not configured.
C6_ScenarioAPair ==
    /\ ~api_configured
    /\ Len(sm_en_texts) = 1
    /\ Len(sm_ar_texts) = 1
    /\ WordCount(sm_en_texts[1]) = WordCount(sm_ar_texts[1])

C6_OneStructuralMatch ==
    /\ Len(sm_matches) = 1
    /\ sm_matches[1].en_index = 0
    /\ sm_matches[1].ar_index = 0
    /\ sm_matches[1].match_method = "structure_fallback"

\* C6, as stated: with the oracle unconfigured, a matched slide pair of
\* scenario A produces its phrase match through the structural fallback and
\* that match has confidence 0.2.
C6_ConfidenceOneFifth ==
    (sm_pc = "returned" /\ C6_ScenarioAPair) =>
        /\ C6_OneStructuralMatch
        /\ REq(sm_matches[1].confidence, R(2, 10))

\* C6, amended: with the oracle unconfigured, a matched slide pair of
\* scenario A produces its phrase match through the structural fallback and
\* that match has confidence (1 - |1 - 0.9| / 0.7) * 0.4 = 12/35.
C6_ConfidenceTwelve35ths ==
    (sm_pc = "returned" /\ C6_ScenarioAPair) =>
        /\ C6_OneStructuralMatch
        /\ REq(sm_matches[1].confidence, R(12, 35))

C6_Witness ==
    /\ sm_pc = "returned"
    /\ ~api_configured
    /\ sm_en_texts = <<EnRevenue>>
    /\ sm_ar_texts = <<ArRevenue>>
    /\ Len(sm_matches) = 1

\* C10: in the list returned on the oracle (semantic) path, each source
\* phrase index and each target phrase index appears in at most one match,
\* whatever lines the oracle response contains.
C10_SemanticIndicesOnce ==
    sm_pc = "returned" =>
        \A i, j \in 1..Len(sm_matches) :
            (/\ i # j
             /\ sm_matches[i].match_method = "llm_semantic"
             /\ sm_matches[j].match_method = "llm_semantic")
            => /\ sm_matches[i].en_index # sm_matches[j].en_index
               /\ sm_matches[i].ar_index # sm_matches[j].ar_index


\* The correspondence a line of the response states, as <<source index,
\* target index, confidence>> with 1-based indices; <<>> for a line that
\* states none (no arrow, or no numeral where one is due).
C11_Stated(line) ==
    IF line = Line_1_1_high THEN <<1, 1, R(9, 10)>>
    ELSE IF line = Line_1_2_medium THEN <<1, 2, R(6, 10)>>
    ELSE IF line = Line_2_1_low THEN <<2, 1, R(3, 10)>>
    ELSE IF line = Line_2_2_plain THEN <<2, 2, R(5, 10)>>
    ELSE IF line = Line_0_1_high THEN <<0, 1, R(9, 10)>>
    ELSE IF line = Line_1_12_high THEN <<1, 12, R(9, 10)>>
    ELSE <<>>

C11_WellFormed(line) ==
    /\ C11_Stated(line) # <<>>
    /\ C11_Stated(line)[1] \in 1..Len(sm_en_texts)
    /\ C11_Stated(line)[2] \in 1..Len(sm_ar_texts)

\* The matches of the well-formed lines among the first n, in order.
RECURSIVE C11_MatchesOf(_)
C11_MatchesOf(n) ==
    IF n = 0 THEN <<>>
    ELSE IF ~C11_WellFormed(sm_lines[n]) THEN C11_MatchesOf(n - 1)
    ELSE LET st == C11_Stated(sm_lines[n])
         IN  Append(C11_MatchesOf(n - 1),
                    [english |-> sm_en_texts[st[1]],
                     arabic |-> sm_ar_texts[st[2]],
                     en_index |-> st[1] - 1,
                     ar_index |-> st[2] - 1,
                     confidence |-> st[3],
                     match_method |-> "llm_semantic"])

\* C11: when the oracle response is parsed, a line whose indices are out of
\* bounds (index 0 or above the list length) or whose structure cannot be
\* read is skipped and the batch goes on: after every line read, and in the
\* list returned, the matches are exactly those of the well-formed lines, in
\* order, and every match has its indices inside both phrase lists.
C11_MalformedLinesSkipped ==
    (sm_pc = "parse" \/ (sm_pc = "returned" /\ sm_lines # <<>>)) =>
        /\ sm_matches = C11_MatchesOf(sm_line_pos - 1)
        /\ sm_pc = "returned" => sm_line_pos = Len(sm_lines) + 1
        /\ \A i \in 1..Len(sm_matches) :
               /\ sm_matches[i].en_index \in 0..(Len(sm_en_texts) - 1)
               /\ sm_matches[i].ar_index \in 0..(Len(sm_ar_texts) - 1)

\* A response whose first line names source index 0 and whose second line
\* is well-formed was read to its end: one match, that of the second line.
C11_Witness ==
    /\ sm_pc = "returned"
    /\ sm_lines = <<Line_0_1_high, Line_2_2_plain>>
    /\ Len(sm_en_texts) = 2
    /\ Len(sm_ar_texts) = 2
    /\ Len(sm_matches) = 1
    /\ sm_matches[1].en_index = 1

\* The oracle was asked: both phrase lists hold a phrase and the call was
\* made.
C26_Asked ==
    /\ sm_pc # "start"
    /\ sm_en_texts # <<>>
    /\ sm_ar_texts # <<>>

\* The structural fallback is or was taken: on the other path sm_lines holds
\* the lines of the response, at least one.
C26_OnStructurePath == C26_Asked /\ sm_lines = <<>>

C26_HasSentinel == Contains(sm_result.text, kw_NO_MATCHES)

C26_NoParseableLine ==
    \A i \in 1..Len(sm_lines) : ~read_match_line(Strip(sm_lines[i])).parsed

\* What holds on either reading of "no result": structural matches on the
\* structural path only, and nothing from a response read without a
\* parseable line.
C26_OtherwiseParsed ==
    /\ \A i \in 1..Len(sm_matches) :
           sm_matches[i].match_method = "structure_fallback" =>
               C26_OnStructurePath
    /\ (sm_pc = "returned" /\ ~C26_OnStructurePath /\ C26_NoParseableLine)
           => sm_matches = <<>>

\* C26, as stated: match_sentences_within_slides uses the structural
\* fallback exactly when the oracle returns no result or its response
\* contains the NO_MATCHES sentinel; in every other case no match is
\* produced by structural pairing, so an oracle response that has no
\* sentinel and no parseable line yields an empty match list.
C26_FallbackOnNoneOrSentinel ==
    C26_Asked =>
        /\ C26_OnStructurePath <=> (~sm_result.some \/ C26_HasSentinel)
        /\ C26_OtherwiseParsed

\* C26, amended: the structural fallback is used exactly when the oracle
\* returns no result, returns an empty response (nothing but whitespace),
\* or its response contains the NO_MATCHES sentinel; in every other case no
\* match is produced by structural pairing, so a non-empty response that
\* has no sentinel and no parseable line yields an empty match list.
C26_FallbackOnNothingOrSentinel ==
    C26_Asked =>
        /\ C26_OnStructurePath <=> (IsFalsy(sm_result) \/ C26_HasSentinel)
        /\ C26_OtherwiseParsed

\* The oracle answered with an empty response and the structural fallback
\* paired the phrases.
C26_Witness ==
    /\ sm_pc = "returned"
    /\ sm_result.some
    /\ sm_result.text = <<>>
    /\ sm_matches # <<>>
    /\ sm_matches[1].match_method = "structure_fallback"


(***************************************************************************)
(* Pair validator: validate_pair_with_llm, and validate_candidates as a    *)
(* state machine, one step per candidate.                                  *)
(***************************************************************************)
MaxCandidates == 2

MaxRuns == 2

\* The oracle calls of one history of validate_candidates, all runs together.
MaxCalls == 4

\* 'VALID: yes'
kw_VALID_yes_upper ==
    <<"V", "A", "L", "I", "D", ":", " ", "y", "e", "s">>

\* 'valid:yes'
kw_valid_yes ==
    <<"v", "a", "l", "i", "d", ":", "y", "e", "s">>

\* 'API not configured'
reason_api_not_configured ==
    <<"A", "P", "I", " ", "n", "o", "t", " ", "c", "o", "n", "f", "i", "g",
      "u", "r", "e", "d">>

\* 'Invalid text'
reason_invalid_text ==
    <<"I", "n", "v", "a", "l", "i", "d", " ", "t", "e", "x", "t">>

\* 'Validation unavailable'
reason_validation_unavailable ==
    <<"V", "a", "l", "i", "d", "a", "t", "i", "o", "n", " ", "u", "n", "a",
      "v", "a", "i", "l", "a", "b", "l", "e">>

\* 'Empty text'
reason_empty_text ==
    <<"E", "m", "p", "t", "y", " ", "t", "e", "x", "t">>

\* 'High confidence match'
reason_high_confidence ==
    <<"H", "i", "g", "h", " ", "c", "o", "n", "f", "i", "d", "e", "n", "c",
      "e", " ", "m", "a", "t", "c", "h">>

\* 'VALID: yes\nREASON: same meaning'
ValidYes ==
    <<"V", "A", "L", "I", "D", ":", " ", "y", "e", "s", "\n", "R", "E", "A",
      "S", "O", "N", ":", " ", "s", "a", "m", "e", " ", "m", "e", "a", "n",
      "i", "n", "g">>

\* 'VALID: no\nREASON: different scope'
ValidNo ==
    <<"V", "A", "L", "I", "D", ":", " ", "n", "o", "\n", "R", "E", "A", "S",
      "O", "N", ":", " ", "d", "i", "f", "f", "e", "r", "e", "n", "t", " ",
      "s", "c", "o", "p", "e">>

\* 'valid:yes'
ValidYesPacked ==
    <<"v", "a", "l", "i", "d", ":", "y", "e", "s">>

\* The placeholder of a text without a partner.
Unpaired == <<"[UNPAIRED]">>

\* Lines 478-479: the reading of a non-empty oracle reply.
parse_validation_reply(text) ==
    [is_valid |-> \/ Contains(Lower(text), kw_VALID_yes_upper)
                  \/ Contains(RemoveSpaces(Lower(text)), kw_valid_yes),
     reason |-> IF Contains(text, kw_REASON)
                THEN Strip(AfterLast(text, kw_REASON))
                ELSE text]

ValidationExchanges ==
    Failures
    \cup {Reply(r) : r \in {ValidYes, ValidNo, ValidYesPacked, RespBlank}}

\* Lines 473-481: call_llm and the reading of what it returned.
validation_reading(exchange) ==
    LET result == call_llm(TRUE, exchange)
    IN  IF IsFalsy(result)
        THEN [is_valid |-> FALSE, reason |-> reason_validation_unavailable]
        ELSE parse_validation_reply(result.text)

\* The readings, computed once per exchange.
ValidationReading ==
    [exchange \in ValidationExchanges |-> validation_reading(exchange)]

read_validation(exchange) ==
    IF exchange \in DOMAIN ValidationReading
    THEN ValidationReading[exchange]
    ELSE validation_reading(exchange)

\* validate_pair_with_llm, with whether it called call_llm.
validate_pair_with_llm_ConfigLast(configured, english, arabic, exchange) ==
    IF english = <<>> \/ arabic = <<>>
       \/ english = Unpaired \/ arabic = Unpaired
    THEN [is_valid |-> FALSE, reason |-> reason_invalid_text,
          called |-> FALSE]
    ELSE [is_valid |-> configured /\ read_validation(exchange).is_valid,
          reason |-> IF configured THEN read_validation(exchange).reason
                     ELSE reason_validation_unavailable,
          called |-> configured]

validate_pair_with_llm(configured, english, arabic, exchange) ==
    IF ~configured
    THEN [is_valid |-> FALSE, reason |-> reason_api_not_configured,
          called |-> FALSE]
    ELSE IF english = <<>> \/ arabic = <<>>
            \/ english = Unpaired \/ arabic = Unpaired
    THEN [is_valid |-> FALSE, reason |-> reason_invalid_text,
          called |-> FALSE]
    ELSE [is_valid |-> read_validation(exchange).is_valid,
          reason |-> read_validation(exchange).reason,
          called |-> TRUE]

high_confidence == R(7, 10)

\* candidate.get("validation_reason") of a candidate that has none
NoReason == <<>>

Candidate(english, arabic, confidence) ==
    [english |-> english, arabic |-> arabic, confidence |-> confidence,
     validated |-> FALSE, validation_reason |-> NoReason]

\* Lines 487-506: the body of the loop, with whether call_llm was called.
ValidateOne_NoSkip(configured, candidate, exchange) ==
    IF candidate.english = <<>> \/ candidate.arabic = <<>>
    THEN [candidate |-> [candidate EXCEPT
                            !.validated = FALSE,
                            !.validation_reason = reason_empty_text],
          called |-> FALSE]
    ELSE IF RLe(high_confidence, candidate.confidence)
    THEN [candidate |-> [candidate EXCEPT
                            !.validated = TRUE,
                            !.validation_reason = reason_high_confidence],
          called |-> FALSE]
    ELSE LET v == validate_pair_with_llm(configured, candidate.english,
                                         candidate.arabic, exchange)
         IN  [candidate |-> [candidate EXCEPT
                                !.validated = v.is_valid,
                                !.validation_reason = v.reason],
              called |-> v.called]

ValidateOne_Threshold05(configured, candidate, exchange) ==
    IF candidate.validated THEN [candidate |-> candidate, called |-> FALSE]
    ELSE IF candidate.english = <<>> \/ candidate.arabic = <<>>
    THEN [candidate |-> [candidate EXCEPT
                            !.validated = FALSE,
                            !.validation_reason = reason_empty_text],
          called |-> FALSE]
    ELSE IF RLe(R(5, 10), candidate.confidence)
    THEN [candidate |-> [candidate EXCEPT
                            !.validated = TRUE,
                            !.validation_reason = reason_high_confidence],
          called |-> FALSE]
    ELSE LET v == validate_pair_with_llm(configured, candidate.english,
                                         candidate.arabic, exchange)
         IN  [candidate |-> [candidate EXCEPT
                                !.validated = v.is_valid,
                                !.validation_reason = v.reason],
              called |-> v.called]

ValidateOne(configured, candidate, exchange) ==
    IF candidate.validated THEN [candidate |-> candidate, called |-> FALSE]
    ELSE IF candidate.english = <<>> \/ candidate.arabic = <<>>
    THEN [candidate |-> [candidate EXCEPT
                            !.validated = FALSE,
                            !.validation_reason = reason_empty_text],
          called |-> FALSE]
    ELSE IF RLe(high_confidence, candidate.confidence)
    THEN [candidate |-> [candidate EXCEPT
                            !.validated = TRUE,
                            !.validation_reason = reason_high_confidence],
          called |-> FALSE]
    ELSE LET v == validate_pair_with_llm(configured, candidate.english,
                                         candidate.arabic, exchange)
         IN  [candidate |-> [candidate EXCEPT
                                !.validated = v.is_valid,
                                !.validation_reason = v.reason],
              called |-> v.called]

\* The candidates of the model: the structural match of scenario A
\* (0.5 * 12/35), a semantic match of two high judgments (0.9 * 0.9), a
\* candidate at the threshold, one just below it (0.9 * 0.6), one without
\* source text and one whose target is the placeholder.
ValidationCandidates ==
    {Candidate(EnHello, ArHello, R(6, 35)),
     Candidate(EnRevenue, ArRevenue, R(81, 100)),
     Candidate(EnTitle, ArTitle, R(7, 10)),
     Candidate(EnFive, ArFive, R(54, 100)),
     Candidate(<<>>, ArHello, R(81, 100)),
     Candidate(EnHello, Unpaired, R(5, 10))}

ValidateInit ==
    /\ api_configured \in BOOLEAN
    /\ SlideIdle
    /\ StructureIdle
    /\ SentencesIdle
    /\ OracleIdle
    /\ DictionaryIdle
    /\ BuildIdle
    /\ SimilarityIdle
    /\ MirrorIdle
    /\ TranslateIdle
    /\ ParseIdle
    /\ vc_pc = "loop"
    /\ vc_candidates \in SeqsUpTo(ValidationCandidates, MaxCandidates)
    /\ vc_pos = 1
    /\ vc_run = 1
    /\ vc_calls = <<>>

\* Lines 486-506: one iteration of the loop.
ValidateStep ==
    /\ vc_pc = "loop"
    /\ vc_pos <= Len(vc_candidates)
    /\ \E exchange \in ValidationExchanges :
        LET one == ValidateOne(api_configured, vc_candidates[vc_pos],
                               exchange)
        IN  /\ one.called => Len(vc_calls) < MaxCalls
            /\ vc_candidates' =
                   [vc_candidates EXCEPT ![vc_pos] = one.candidate]
            /\ vc_calls' = IF one.called
                           THEN Append(vc_calls, <<vc_run, vc_pos, exchange>>)
                           ELSE vc_calls
    /\ vc_pos' = vc_pos + 1
    /\ UNCHANGED <<vc_pc, vc_run>>
    /\ UNCHANGED <<api_configured, slide_vars, structure_vars, sentence_vars,
                   oracle_vars, dictionary_vars, build_vars,
                   parse_vars,
                   translate_vars,
                   mirror_vars,
                   similarity_vars>>

\* Line 508: return candidates
ValidateReturn ==
    /\ vc_pc = "loop"
    /\ vc_pos > Len(vc_candidates)
    /\ vc_pc' = "returned"
    /\ UNCHANGED <<vc_candidates, vc_pos, vc_run, vc_calls>>
    /\ UNCHANGED <<api_configured, slide_vars, structure_vars, sentence_vars,
                   oracle_vars, dictionary_vars, build_vars,
                   parse_vars,
                   translate_vars,
                   mirror_vars,
                   similarity_vars>>

\* A further call of validate_candidates on the list it returned.
ValidateAgain ==
    /\ vc_pc = "returned"
    /\ vc_run < MaxRuns
    /\ vc_run' = vc_run + 1
    /\ vc_pos' = 1
    /\ vc_pc' = "loop"
    /\ UNCHANGED <<vc_candidates, vc_calls>>
    /\ UNCHANGED <<api_configured, slide_vars, structure_vars, sentence_vars,
                   oracle_vars, dictionary_vars, build_vars,
                   parse_vars,
                   translate_vars,
                   mirror_vars,
                   similarity_vars>>

ValidateNext ==
    \/ ValidateStep
    \/ ValidateReturn
    \/ ValidateAgain

SpecValidate == ValidateInit /\ [][ValidateNext]_vars


(***************************************************************************)
(* Properties of the pair validator.                                       *)
(***************************************************************************)
\* The calls of call_llm made for the candidate at index i.
CallsFor(i) == {k \in 1..Len(vc_calls) : vc_calls[k][2] = i}

\* The candidate at index i has been through the loop body.
Handled(i) == i < vc_pos \/ vc_run > 1

HasBothTexts(c) == c.english # <<>> /\ c.arabic # <<>>

C12_ValidatedLeftAlone ==
    (/\ vc_pc = "loop"
     /\ vc_pos <= Len(vc_candidates)
     /\ vc_candidates[vc_pos].validated)
    => /\ vc_candidates' = vc_candidates
       /\ vc_calls' = vc_calls

\* C12: running validate_candidates a second time on a candidate that is
\* already validated leaves its validated flag and its validation reason
\* unchanged and makes no oracle call for it.
C12_Idempotent == [][C12_ValidatedLeftAlone]_vars

\* The second call returned; a candidate below the threshold had been
\* validated by the oracle in the first call, and the only oracle call for
\* it is that one.
C12_Witness ==
    /\ vc_pc = "returned"
    /\ vc_run = 2
    /\ \E i \in 1..Len(vc_candidates) :
        /\ vc_candidates[i].validated
        /\ RLt(vc_candidates[i].confidence, R(7, 10))
        /\ \E k \in CallsFor(i) : vc_calls[k][1] = 1
        /\ \A k \in CallsFor(i) : vc_calls[k][1] = 1

\* The oracle replies that say the pair is valid.
C13_SaysValid(exchange) ==
    exchange.kind = "ok" /\ exchange.content \in {ValidYes, ValidYesPacked}

\* C13: a candidate with both texts whose combined confidence is >= 0.7 is,
\* once handled, validated with the high-confidence reason, and no oracle
\* call is ever made for it; a candidate with combined confidence below 0.7
\* is validated only if an oracle call made for it said the pair is valid.
C13_ShortCircuit ==
    \A i \in 1..Len(vc_candidates) :
        LET c == vc_candidates[i]
        IN  /\ (HasBothTexts(c) /\ RLe(R(7, 10), c.confidence)) =>
                   /\ CallsFor(i) = {}
                   /\ Handled(i) =>
                          /\ c.validated
                          /\ c.validation_reason = reason_high_confidence
            /\ (c.validated /\ RLt(c.confidence, R(7, 10))) =>
                   \E k \in CallsFor(i) : C13_SaysValid(vc_calls[k][3])

\* A candidate exactly at 0.7 was validated without a call and one below
\* 0.7 was validated by the oracle.
C13_Witness ==
    /\ vc_pc = "returned"
    /\ \E i, j \in 1..Len(vc_candidates) :
        /\ REq(vc_candidates[i].confidence, R(7, 10))
        /\ vc_candidates[i].validated
        /\ CallsFor(i) = {}
        /\ RLt(vc_candidates[j].confidence, R(7, 10))
        /\ vc_candidates[j].validated
        /\ CallsFor(j) # {}

\* The candidate at index i reaches validate_pair_with_llm whenever it is
\* not yet validated: it has both texts and is below the threshold.
C14_NeedsOracle(i) ==
    /\ HasBothTexts(vc_candidates[i])
    /\ RLt(vc_candidates[i].confidence, R(7, 10))

\* The last oracle call made for the candidate at index i failed: no
\* response, a non-success status, a body without content, or empty content.
C14_LastCallFailed(i) ==
    /\ CallsFor(i) # {}
    /\ LET last == CHOOSE k \in CallsFor(i) : \A m \in CallsFor(i) : m <= k
       IN  \/ vc_calls[last][3].kind # "ok"
           \/ vc_calls[last][3].content = RespBlank

\* C14, as stated: if the oracle is unconfigured or the oracle call fails,
\* every candidate that does not take the high-confidence short-circuit is
\* marked validated=false with reason "validation unavailable", in both
\* cases.
C14_UnavailableInBothCases ==
    \A i \in 1..Len(vc_candidates) :
        (/\ Handled(i)
         /\ C14_NeedsOracle(i)
         /\ ~api_configured \/ C14_LastCallFailed(i))
        => /\ ~vc_candidates[i].validated
           /\ vc_candidates[i].validation_reason
                  = reason_validation_unavailable

\* C14, amended: a candidate with both texts and combined confidence below
\* 0.7 is marked validated=false with reason "API not configured", and no
\* oracle call is made for it, if the oracle is unconfigured; it is marked
\* validated=false with reason "Validation unavailable" if the oracle call
\* made for it failed.
C14_UnavailableOrNotConfigured ==
    \A i \in 1..Len(vc_candidates) :
        (Handled(i) /\ C14_NeedsOracle(i)) =>
            /\ ~api_configured =>
                   /\ ~vc_candidates[i].validated
                   /\ vc_candidates[i].validation_reason
                          = reason_api_not_configured
                   /\ CallsFor(i) = {}
            /\ C14_LastCallFailed(i) =>
                   /\ ~vc_candidates[i].validated
                   /\ vc_candidates[i].validation_reason
                          = reason_validation_unavailable

\* Unconfigured, the call returned with the structural candidate of
\* scenario A rejected.
C14_Witness ==
    /\ vc_pc = "returned"
    /\ ~api_configured
    /\ \E i \in 1..Len(vc_candidates) :
        /\ vc_candidates[i].english = EnHello
        /\ vc_candidates[i].arabic = ArHello
        /\ ~vc_candidates[i].validated
        /\ vc_candidates[i].validation_reason = reason_api_not_configured


(***************************************************************************)
(* Oracle adapter: call_llm as a state machine, with the exception raised  *)
(* inside its try block as a state of its own.                             *)
(***************************************************************************)
\* What the HTTP exchange may do: fail in one of the ways of Failures, fail
\* to connect, or answer with a body that carries a content string.
OracleExchanges ==
    Failures
    \cup {[kind |-> "connection_error", content |-> <<>>]}
    \cup SlideExchanges \cup SentenceExchanges \cup ValidationExchanges

\* Lines 52-55: the statement of the try block that raises, if one does.
raises_StatusIgnored(exchange) == exchange.kind \notin {"ok", "http_error"}

raises(exchange) == exchange.kind # "ok"

OracleInit ==
    /\ api_configured \in BOOLEAN
    /\ SlideIdle
    /\ StructureIdle
    /\ SentencesIdle
    /\ ValidateIdle
    /\ DictionaryIdle
    /\ BuildIdle
    /\ SimilarityIdle
    /\ MirrorIdle
    /\ TranslateIdle
    /\ ParseIdle
    /\ llm_pc = "call"
    /\ llm_exchange \in OracleExchanges
    /\ llm_result = NoResult

\* Lines 34-35: return None
LlmUnconfigured ==
    /\ llm_pc = "call"
    /\ ~api_configured
    /\ llm_result' = NoResult
    /\ llm_pc' = "returned"
    /\ UNCHANGED llm_exchange
    /\ UNCHANGED <<api_configured, slide_vars, structure_vars, sentence_vars,
                   validate_vars, dictionary_vars, build_vars,
                   parse_vars,
                   translate_vars,
                   mirror_vars,
                   similarity_vars>>

\* Lines 51-55: the request; it returns the stripped content or raises.
LlmRequest ==
    /\ llm_pc = "call"
    /\ api_configured
    /\ IF raises(llm_exchange)
       THEN /\ llm_pc' = "except"
            /\ UNCHANGED llm_result
       ELSE /\ llm_pc' = "returned"
            /\ llm_result' = Text(Strip(llm_exchange.content))
    /\ UNCHANGED llm_exchange
    /\ UNCHANGED <<api_configured, slide_vars, structure_vars, sentence_vars,
                   validate_vars, dictionary_vars, build_vars,
                   parse_vars,
                   translate_vars,
                   mirror_vars,
                   similarity_vars>>

\* Lines 56-58: except Exception: return None
LlmExcept ==
    /\ llm_pc = "except"
    /\ llm_result' = NoResult
    /\ llm_pc' = "returned"
    /\ UNCHANGED llm_exchange
    /\ UNCHANGED <<api_configured, slide_vars, structure_vars, sentence_vars,
                   validate_vars, dictionary_vars, build_vars,
                   parse_vars,
                   translate_vars,
                   mirror_vars,
                   similarity_vars>>

OracleNext ==
    \/ LlmUnconfigured
    \/ LlmRequest
    \/ LlmExcept

SpecOracle == OracleInit /\ [][OracleNext]_vars

(***************************************************************************)
(* Properties of the oracle adapter.                                       *)
(***************************************************************************)
\* C15: call_llm never raises to its caller: an exception of the request is
\* in flight only inside the try block, and the call returns None when the
\* API is unconfigured, when the transport fails or times out, when the HTTP
\* status is not a success and when the body does not carry the content
\* string; only a well-formed successful response yields a text, the
\* stripped content.
C15_NeverRaises ==
    /\ llm_pc \in {"call", "except", "returned"}
    /\ llm_pc = "except" => ENABLED LlmExcept
    /\ llm_pc = "returned" =>
        /\ ~api_configured => llm_result = NoResult
        /\ llm_exchange.kind \in {"connection_error", "timeout",
                                  "http_error", "malformed_body"}
               => llm_result = NoResult
        /\ (api_configured /\ llm_exchange.kind = "ok")
               => llm_result = Text(Strip(llm_exchange.content))
        /\ llm_result = call_llm(api_configured, llm_exchange)

\* A configured call whose request met a non-success status has returned.
C15_Witness ==
    /\ llm_pc = "returned"
    /\ api_configured
    /\ llm_exchange.kind = "http_error"
    /\ llm_result = NoResult


(***************************************************************************)
(* Dictionary store: add_entry and add_entries_bulk, each call a step from *)
(* the file as loaded to the file as saved.  The metadata that             *)
(* save_dictionary writes beside the entries is left out.                  *)
(***************************************************************************)
MaxBatch == 2

Entry(english, arabic, validated) ==
    [english |-> english, arabic |-> arabic, validated |-> validated]

\* The entries of the model: one English text in two letter cases with
\* different Arabic texts and flags, and a second English text twice.
DictEntries ==
    {Entry(<<"H", "i">>, <<"ahlan">>, TRUE),
     Entry(<<"h", "i">>, <<"marhaban">>, FALSE),
     Entry(<<"O", "k">>, <<"hasanan">>, TRUE),
     Entry(<<"O", "k">>, <<"tamam">>, FALSE)}

\* The positions of entries whose English text is english, ignoring case.
Stored(entries, english) ==
    {i \in 1..Len(entries) : Lower(entries[i].english) = Lower(english)}

FirstOf(positions) == CHOOSE i \in positions : \A j \in positions : i <= j

\* Lines 45-61 of add_entry: the entries saved.
add_entry(entries, english, arabic, validated) ==
    IF Stored(entries, english) # {}
    THEN [entries EXCEPT ![FirstOf(Stored(entries, english))] =
             [@ EXCEPT !.arabic = arabic, !.validated = validated]]
    ELSE Append(entries, Entry(english, arabic, validated))

\* Lines 77-81: the update of the first entry with the English text.
update_existing_KeepsFlag(entries, entry) ==
    [entries EXCEPT ![FirstOf(Stored(entries, entry.english))] =
        [@ EXCEPT !.arabic = entry.arabic]]

update_existing(entries, entry) ==
    [entries EXCEPT ![FirstOf(Stored(entries, entry.english))] =
        [@ EXCEPT !.arabic = entry.arabic, !.validated = entry.validated]]

\* Lines 71-81: the body of the loop of add_entries_bulk on its state
\* (data["entries"], existing, added).
BulkStep_CountsUpdates(st, entry) ==
    IF Lower(entry.english) \notin st.existing
    THEN [entries |-> Append(st.entries, entry),
          existing |-> st.existing \cup {Lower(entry.english)},
          added |-> st.added + 1]
    ELSE [st EXCEPT !.entries = update_existing(st.entries, entry),
                    !.added = st.added + 1]

BulkStep_ForgetsAdded(st, entry) ==
    IF Lower(entry.english) \notin st.existing
    THEN [entries |-> Append(st.entries, entry),
          existing |-> st.existing,
          added |-> st.added + 1]
    ELSE IF Stored(st.entries, entry.english) = {} THEN st
    ELSE [st EXCEPT !.entries = update_existing(st.entries, entry)]

BulkStep(st, entry) ==
    IF Lower(entry.english) \notin st.existing
    THEN [entries |-> Append(st.entries, entry),
          existing |-> st.existing \cup {Lower(entry.english)},
          added |-> st.added + 1]
    ELSE [st EXCEPT !.entries = update_existing(st.entries, entry)]

RECURSIVE BulkLoop(_, _)
BulkLoop(st, batch) ==
    IF batch = <<>> THEN st
    ELSE BulkLoop(BulkStep(st, Head(batch)), Tail(batch))

\* add_entries_bulk returning the length of the batch it was given.
add_entries_bulk_CountsBatch(entries, batch) ==
    LET st == BulkLoop([entries |-> entries,
                        existing |-> {Lower(entries[i].english) :
                                          i \in 1..Len(entries)},
                        added |-> 0],
                       batch)
    IN  [entries |-> st.entries, added |-> Len(batch)]

\* Lines 66-84: the entries saved and the count returned.
add_entries_bulk(entries, batch) ==
    LET st == BulkLoop([entries |-> entries,
                        existing |-> {Lower(entries[i].english) :
                                          i \in 1..Len(entries)},
                        added |-> 0],
                       batch)
    IN  [entries |-> st.entries, added |-> st.added]

\* No two entries have the same English text ignoring case.
NoCaseDuplicates(entries) ==
    \A i, j \in 1..Len(entries) :
        i # j => Lower(entries[i].english) # Lower(entries[j].english)

DictionaryInit ==
    /\ api_configured = FALSE
    /\ SlideIdle
    /\ StructureIdle
    /\ SentencesIdle
    /\ OracleIdle
    /\ ValidateIdle
    /\ BuildIdle
    /\ SimilarityIdle
    /\ MirrorIdle
    /\ TranslateIdle
    /\ ParseIdle
    /\ dict_entries \in {es \in SeqsUpTo(DictEntries, MaxBatch) :
                            NoCaseDuplicates(es)}
    /\ dict_call = NoCall
    /\ dict_before = <<>>
    /\ dict_repeated = FALSE

AddEntry ==
    /\ \E entry \in DictEntries :
        /\ dict_entries' = add_entry(dict_entries, entry.english,
                                     entry.arabic, entry.validated)
        \* returned: add_entry returns True, kept as 1
        /\ dict_call' = [op |-> "add_entry", batch |-> <<entry>>,
                         returned |-> 1]
        /\ dict_repeated' = (/\ dict_call.op = "add_entry"
                             /\ dict_call.batch = <<entry>>)
    /\ dict_before' = dict_entries
    /\ UNCHANGED <<api_configured, slide_vars, structure_vars, sentence_vars,
                   oracle_vars, validate_vars, build_vars,
                   parse_vars,
                   translate_vars,
                   mirror_vars, similarity_vars>>

AddEntriesBulk ==
    /\ \E batch \in SeqsUpTo(DictEntries, MaxBatch) :
        LET done == add_entries_bulk(dict_entries, batch)
        IN  /\ dict_entries' = done.entries
            /\ dict_call' = [op |-> "add_entries_bulk", batch |-> batch,
                             returned |-> done.added]
            /\ dict_repeated' = (/\ dict_call.op = "add_entries_bulk"
                                 /\ dict_call.batch = batch)
    /\ dict_before' = dict_entries
    /\ UNCHANGED <<api_configured, slide_vars, structure_vars, sentence_vars,
                   oracle_vars, validate_vars, build_vars,
                   parse_vars,
                   translate_vars,
                   mirror_vars, similarity_vars>>

DictionaryNext ==
    \/ AddEntry
    \/ AddEntriesBulk

SpecDictionary == DictionaryInit /\ [][DictionaryNext]_vars


(***************************************************************************)
(* Properties of the dictionary store.                                     *)
(***************************************************************************)
\* C16: calling add_entries_bulk twice in a row with the identical entry
\* set inserts the entries only once: the second call returns 0 and leaves
\* the number of stored entries unchanged.
C16_SecondBulkAddsNothing ==
    (dict_call.op = "add_entries_bulk" /\ dict_repeated) =>
        /\ dict_call.returned = 0
        /\ Len(dict_entries) = Len(dict_before)

\* The second of two calls with the same two entries of different English
\* texts has returned.
C16_Witness ==
    /\ dict_call.op = "add_entries_bulk"
    /\ dict_repeated
    /\ Len(dict_call.batch) = 2
    /\ Lower(dict_call.batch[1].english) # Lower(dict_call.batch[2].english)
    /\ dict_call.returned = 0

\* C17: starting from a store without two entries of the same English text
\* ignoring case, after any sequence of add_entry and add_entries_bulk calls
\* the store has no two entries of the same English text ignoring case.
C17_NoCaseDuplicates == NoCaseDuplicates(dict_entries)

\* A batch with the same English text in two letter cases was added to a
\* store that did not have it, and one entry was stored for it.
C17_Witness ==
    /\ dict_call.op = "add_entries_bulk"
    /\ Len(dict_call.batch) = 2
    /\ dict_call.batch[1].english # dict_call.batch[2].english
    /\ Lower(dict_call.batch[1].english) = Lower(dict_call.batch[2].english)
    /\ Stored(dict_before, dict_call.batch[1].english) = {}
    /\ Len(dict_entries) = Len(dict_before) + 1

\* The positions of the entries supplied by the last call whose English
\* text is english, ignoring case.
C18_Supplied(english) == Stored(dict_call.batch, english)

C18_LastOf(positions) == CHOOSE i \in positions : \A j \in positions : j <= i

\* C18: when a call supplies an entry whose English text is already stored
\* ignoring case, no entry is added for it and the stored entry's Arabic
\* text and validated flag become those of the supplied entry (of the last
\* one supplied, if the call supplies several); the stored English text and
\* every stored entry that the call does not supply are left unchanged.
C18_Upsert ==
    dict_call.op # "none" =>
        /\ Len(dict_entries) =
               Len(dict_before)
               + Cardinality({Lower(dict_call.batch[k].english) :
                                 k \in {m \in 1..Len(dict_call.batch) :
                                          Stored(dict_before,
                                                 dict_call.batch[m].english)
                                              = {}}})
        /\ \A i \in 1..Len(dict_before) :
               /\ dict_entries[i].english = dict_before[i].english
               /\ C18_Supplied(dict_before[i].english) = {}
                      => dict_entries[i] = dict_before[i]
               /\ C18_Supplied(dict_before[i].english) # {} =>
                      LET last == dict_call.batch[
                              C18_LastOf(C18_Supplied(dict_before[i].english))]
                      IN  /\ dict_entries[i].arabic = last.arabic
                          /\ dict_entries[i].validated = last.validated

\* add_entries_bulk was given one entry whose English text was stored in
\* another letter case, with another Arabic text and another flag, beside a
\* second stored entry.
C18_Witness ==
    /\ dict_call.op = "add_entries_bulk"
    /\ Len(dict_call.batch) = 1
    /\ Len(dict_before) = 2
    /\ Len(dict_entries) = 2
    /\ \E i \in Stored(dict_before, dict_call.batch[1].english) :
        /\ dict_before[i].english # dict_call.batch[1].english
        /\ dict_before[i].arabic # dict_call.batch[1].arabic
        /\ dict_before[i].validated # dict_call.batch[1].validated
        /\ dict_entries[i].arabic = dict_call.batch[1].arabic


(***************************************************************************)
(* Orchestrator: build_dictionary_from_parallel_pptx from its step 2 on,   *)
(* with the candidates that the alignment step produced.                   *)
(***************************************************************************)
\* validate_candidates as one call: exchanges[i] is what the oracle does if
\* it is called for candidates[i].  An iteration touches its candidate only.
validate_candidates(configured, cands, exchanges) ==
    [i \in 1..Len(cands) |->
        ValidateOne(configured, cands[i], exchanges[i]).candidate]

IsValidated(c) == c.validated

\* Lines 595-599: valid_entries
valid_entries_Unfiltered(cands) ==
    [i \in 1..Len(cands) |-> Entry(cands[i].english, cands[i].arabic, TRUE)]

valid_entries(cands) ==
    LET kept == SelectSeq(cands, IsValidated)
    IN  [i \in 1..Len(kept) |-> Entry(kept[i].english, kept[i].arabic, TRUE)]

\* The candidates of the model, as align_with_heuristics leaves them: not
\* validated, with confidences 0.9 * 0.9, 0.5 * 12/35, 0.9 * 0.6 and
\* 0.5 * 0.5.
BuildCandidates ==
    {Candidate(<<"H", "i">>, <<"ahlan">>, R(81, 100)),
     Candidate(<<"h", "i">>, <<"marhaban">>, R(6, 35)),
     Candidate(<<"O", "k">>, <<"hasanan">>, R(54, 100)),
     Candidate(<<"O", "k">>, <<"tamam">>, R(25, 100))}

BuildInit ==
    /\ api_configured \in BOOLEAN
    /\ SlideIdle
    /\ StructureIdle
    /\ SentencesIdle
    /\ OracleIdle
    /\ ValidateIdle
    /\ SimilarityIdle
    /\ MirrorIdle
    /\ TranslateIdle
    /\ ParseIdle
    /\ dict_entries \in {<<>>} \cup {<<entry>> : entry \in DictEntries}
    /\ dict_call = NoCall
    /\ dict_before = <<>>
    /\ dict_repeated = FALSE
    /\ bd_pc = "validate"
    /\ bd_validate \in BOOLEAN
    /\ bd_candidates \in SeqsUpTo(BuildCandidates, MaxCandidates)
    /\ bd_valid_entries = <<>>
    /\ bd_added_count = 0

\* Lines 590-592: candidates = validate_candidates(candidates)
BuildValidate ==
    /\ bd_pc = "validate"
    /\ bd_validate /\ bd_candidates # <<>>
    /\ \E exchanges \in [1..Len(bd_candidates) -> ValidationExchanges] :
        bd_candidates' =
            validate_candidates(api_configured, bd_candidates, exchanges)
    /\ bd_pc' = "store"
    /\ UNCHANGED <<bd_validate, bd_valid_entries, bd_added_count>>
    /\ UNCHANGED <<api_configured, slide_vars, structure_vars, sentence_vars,
                   oracle_vars, validate_vars, dictionary_vars,
                   parse_vars,
                   translate_vars,
                   mirror_vars,
                   similarity_vars>>

\* Line 590, condition false: the validation step is passed over.
BuildSkipValidation ==
    /\ bd_pc = "validate"
    /\ ~(bd_validate /\ bd_candidates # <<>>)
    /\ bd_pc' = "store"
    /\ UNCHANGED <<bd_validate, bd_candidates, bd_valid_entries,
                   bd_added_count>>
    /\ UNCHANGED <<api_configured, slide_vars, structure_vars, sentence_vars,
                   oracle_vars, validate_vars, dictionary_vars,
                   parse_vars,
                   translate_vars,
                   mirror_vars,
                   similarity_vars>>

\* Lines 595-604: valid_entries and the call of add_entries_bulk.
BuildStore ==
    /\ bd_pc = "store"
    /\ bd_valid_entries' = valid_entries(bd_candidates)
    /\ IF valid_entries(bd_candidates) # <<>>
       THEN LET done == add_entries_bulk(dict_entries,
                                         valid_entries(bd_candidates))
            IN  /\ bd_added_count' = done.added
                /\ dict_entries' = done.entries
                /\ dict_call' = [op |-> "add_entries_bulk",
                                 batch |-> valid_entries(bd_candidates),
                                 returned |-> done.added]
                /\ dict_before' = dict_entries
                /\ UNCHANGED dict_repeated
       ELSE /\ bd_added_count' = 0
            /\ UNCHANGED dictionary_vars
    /\ bd_pc' = "done"
    /\ UNCHANGED <<bd_validate, bd_candidates>>
    /\ UNCHANGED <<api_configured, slide_vars, structure_vars, sentence_vars,
                   oracle_vars, validate_vars,
                   parse_vars,
                   translate_vars,
                   mirror_vars, similarity_vars>>

BuildNext ==
    \/ BuildValidate
    \/ BuildSkipValidation
    \/ BuildStore

SpecBuild == BuildInit /\ [][BuildNext]_vars

\* Lines 610-617: the summary build_dictionary_from_parallel_pptx returns,
\* without the slide counts.
build_result ==
    [total_candidates |-> Len(bd_candidates),
     validated_pairs |-> Len(bd_valid_entries),
     added_to_dictionary |-> bd_added_count,
     candidates |-> bd_candidates]

(***************************************************************************)
(* Properties of the orchestrator.                                         *)
(***************************************************************************)
\* The entries of the validated candidates among the first n, in order.
RECURSIVE C19_EntriesOfValidated(_)
C19_EntriesOfValidated(n) ==
    IF n = 0 THEN <<>>
    ELSE IF ~bd_candidates[n].validated THEN C19_EntriesOfValidated(n - 1)
    ELSE Append(C19_EntriesOfValidated(n - 1),
                [english |-> bd_candidates[n].english,
                 arabic |-> bd_candidates[n].arabic,
                 validated |-> TRUE])

C19_HandedAtTheEnd ==
    /\ bd_pc # "done" => dict_call = NoCall
    /\ bd_pc = "done" =>
        LET validated == C19_EntriesOfValidated(Len(bd_candidates))
        IN  /\ bd_valid_entries = validated
            /\ validated # <<>> =>
                   /\ dict_call.op = "add_entries_bulk"
                   /\ dict_call.batch = validated
            /\ validated = <<>> => dict_call = NoCall

C19_StoreChangedByTheCallOnly ==
    dict_entries' # dict_entries =>
        /\ dict_call'.op = "add_entries_bulk"
        /\ dict_call'.batch = C19_EntriesOfValidated(Len(bd_candidates))
        /\ dict_before' = dict_entries

\* C19: build_dictionary_from_parallel_pptx hands to the dictionary store
\* exactly the candidates whose validated flag is true after the validation
\* step, in one add_entries_bulk call; the store changes in that call only,
\* so a candidate whose flag is false is never inserted or used to update.
C19_OnlyValidatedStored ==
    []C19_HandedAtTheEnd /\ [][C19_StoreChangedByTheCallOnly]_vars

\* The run ended with one candidate validated and handed to the store and
\* another one rejected by the oracle and not handed.
C19_Witness ==
    /\ bd_pc = "done"
    /\ Len(bd_candidates) = 2
    /\ bd_candidates[1].validated
    /\ ~bd_candidates[2].validated
    /\ bd_candidates[2].validation_reason # reason_api_not_configured
    /\ Len(dict_call.batch) = 1
    /\ dict_call.batch[1].english = bd_candidates[1].english

C23_Counts ==
    bd_pc = "done" =>
        LET result == build_result
            validated == {i \in 1..Len(result.candidates) :
                             result.candidates[i].validated}
        IN  /\ result.total_candidates = Len(result.candidates)
            /\ result.validated_pairs = Cardinality(validated)
            /\ result.added_to_dictionary <= result.validated_pairs
            /\ result.validated_pairs <= result.total_candidates

\* In every step the store grows by what the step adds to added_count.
C23_GrowthIsAdded ==
    Len(dict_entries') - Len(dict_entries) = bd_added_count' - bd_added_count

\* C23: in the result of build_dictionary_from_parallel_pptx,
\* total_candidates equals the length of the returned candidates list,
\* validated_pairs equals the number of returned candidates with
\* validated=true, and added_to_dictionary <= validated_pairs <=
\* total_candidates, with added_to_dictionary equal to the growth in the
\* number of stored dictionary entries caused by the run.
C23_SummaryCounts ==
    []C23_Counts /\ [][C23_GrowthIsAdded]_vars

\* The run ended with two candidates, both validated, of which one was new
\* to the store and the other updated an entry.
C23_Witness ==
    /\ bd_pc = "done"
    /\ build_result.total_candidates = 2
    /\ build_result.validated_pairs = 2
    /\ build_result.added_to_dictionary = 1
    /\ Len(dict_entries) = Len(dict_before) + 1


(***************************************************************************)
(* Similarity scorer: fingerprint_similarity applied to the fingerprints   *)
(* of two phrase lists.                                                    *)
(***************************************************************************)
\* A text without a word, such as ' ': len(t.split()) is 0 (line 80).
BlankText == <<>>

\* The fingerprints of the phrase lists of up to MaxTexts phrases, the
\* empty list included.
Fingerprints ==
    {get_slide_fingerprint(texts) :
        texts \in SeqsUpTo(EnPhrases \cup ArPhrases \cup {EnFive, BlankText},
                           MaxTexts)}

SimilarityInit ==
    /\ api_configured = FALSE
    /\ SlideIdle
    /\ StructureIdle
    /\ SentencesIdle
    /\ OracleIdle
    /\ ValidateIdle
    /\ DictionaryIdle
    /\ BuildIdle
    /\ ParseIdle
    /\ TranslateIdle
    /\ MirrorIdle
    /\ fs_pc = "call"
    /\ fs_fp1 \in Fingerprints
    /\ fs_fp2 \in Fingerprints
    /\ fs_score = RInt(0)

Similarity ==
    /\ fs_pc = "call"
    /\ fs_score' = fingerprint_similarity(fs_fp1, fs_fp2)
    /\ fs_pc' = "returned"
    /\ UNCHANGED <<fs_fp1, fs_fp2>>
    /\ UNCHANGED <<api_configured, slide_vars, structure_vars, sentence_vars,
                   oracle_vars, validate_vars, dictionary_vars, build_vars,
                   parse_vars,
                   translate_vars,
                   mirror_vars>>

SimilarityNext == Similarity

SpecSimilarity == SimilarityInit /\ [][SimilarityNext]_vars

(***************************************************************************)
(* Properties of the similarity scorer.                                    *)
(***************************************************************************)
\* C20: fingerprint_similarity returns 0 whenever either argument is the
\* empty fingerprint, in either argument position and whatever the other
\* fingerprint is.
C20_EmptyScoresZero ==
    (fs_pc = "returned" /\ (fs_fp1.empty \/ fs_fp2.empty)) =>
        REq(fs_score, RInt(0))

\* The call returned for a fingerprint of some texts in the first position
\* and the empty fingerprint in the second.
C20_Witness ==
    /\ fs_pc = "returned"
    /\ ~fs_fp1.empty
    /\ fs_fp1.text_count > 1
    /\ fs_fp2.empty


\* C21: self-similarity is an upper bound: for every non-empty fingerprint
\* fp and every fingerprint g,
\* fingerprint_similarity(fp, g) <= fingerprint_similarity(fp, fp).
C21_SelfSimilarityIsMaximal ==
    (fs_pc = "returned" /\ ~fs_fp1.empty) =>
        RLe(fs_score, fingerprint_similarity(fs_fp1, fs_fp1))

\* The call returned for two different fingerprints of some texts, with a
\* score above 0 and below the self-similarity of the first.
C21_Witness ==
    /\ fs_pc = "returned"
    /\ ~fs_fp1.empty
    /\ ~fs_fp2.empty
    /\ fs_fp1 # fs_fp2
    /\ RLt(RInt(0), fs_score)
    /\ RLt(fs_score, fingerprint_similarity(fs_fp1, fs_fp1))


(***************************************************************************)
(* Response parsing: validate_slide_correspondence and                     *)
(* validate_pair_with_llm applied to a response in the format of the       *)
(* prompt and to the same response with its keywords written otherwise.    *)
(***************************************************************************)
kw_MATCH == <<"M", "A", "T", "C", "H">>

kw_CONFIDENCE == <<"C", "O", "N", "F", "I", "D", "E", "N", "C", "E">>

kw_REASON_word == <<"R", "E", "A", "S", "O", "N">>

kw_VALID == <<"V", "A", "L", "I", "D">>

val_yes == <<"y", "e", "s">>

val_no == <<"n", "o">>

val_high == <<"h", "i", "g", "h">>

val_medium == <<"m", "e", "d", "i", "u", "m">>

val_low == <<"l", "o", "w">>

\* 'same topic'
val_explanation == <<"s", "a", "m", "e", " ", "t", "o", "p", "i", "c">>

\* How a keyword is written: its letter case and the spaces around its colon.
\* The prompts (lines 265-268 and 457-459) ask for upper case and ': '.
Colons == {<<":", " ">>, <<":">>, <<" ", ":", " ">>, <<" ", ":">>}

Writings == [upper : BOOLEAN, colon : Colons]

PromptWriting == [upper |-> TRUE, colon |-> <<":", " ">>]

KeywordLine(keyword, writing, value) ==
    (IF writing.upper THEN keyword ELSE Lower(keyword))
        \o writing.colon \o value

\* 'MATCH: <m>\nCONFIDENCE: <c>\nREASON: same topic', each keyword in its
\* own writing
SlideResponse(m, c, w) ==
    KeywordLine(kw_MATCH, w[1], m) \o <<"\n">>
        \o KeywordLine(kw_CONFIDENCE, w[2], c) \o <<"\n">>
        \o KeywordLine(kw_REASON_word, w[3], val_explanation)

\* 'VALID: <v>\nREASON: same topic'
PairResponse(v, w) ==
    KeywordLine(kw_VALID, w[1], v) \o <<"\n">>
        \o KeywordLine(kw_REASON_word, w[2], val_explanation)

ParseInit ==
    /\ api_configured = TRUE
    /\ SlideIdle
    /\ StructureIdle
    /\ SentencesIdle
    /\ OracleIdle
    /\ ValidateIdle
    /\ DictionaryIdle
    /\ BuildIdle
    /\ SimilarityIdle
    /\ MirrorIdle
    /\ TranslateIdle
    /\ pr_pc = "call"
    /\ pr_out1 = <<>>
    /\ pr_out2 = <<>>
    /\ \/ /\ pr_kind = "slide"
          /\ \E m \in {val_yes, val_no}, c \in {val_high, val_medium, val_low},
                w \in [1..3 -> Writings] :
                /\ pr_first = SlideResponse(m, c, [i \in 1..3 |-> PromptWriting])
                /\ pr_second = SlideResponse(m, c, w)
       \/ /\ pr_kind = "pair"
          /\ \E v \in {val_yes, val_no}, w \in [1..2 -> Writings] :
                /\ pr_first = PairResponse(v, [i \in 1..2 |-> PromptWriting])
                /\ pr_second = PairResponse(v, w)

\* validate_slide_correspondence on each of the two responses (lines 277-303)
ParseSlideResponses ==
    /\ pr_pc = "call"
    /\ pr_kind = "slide"
    /\ pr_out1' = validate_slide_correspondence(
                      <<EnHello>>, <<ArHello>>,
                      call_llm(api_configured, Reply(pr_first)))
    /\ pr_out2' = validate_slide_correspondence(
                      <<EnHello>>, <<ArHello>>,
                      call_llm(api_configured, Reply(pr_second)))
    /\ pr_pc' = "returned"
    /\ UNCHANGED <<pr_kind, pr_first, pr_second>>
    /\ UNCHANGED <<api_configured, slide_vars, structure_vars, sentence_vars,
                   oracle_vars, validate_vars, dictionary_vars, build_vars,
                   translate_vars,
                   mirror_vars,
                   similarity_vars>>

\* validate_pair_with_llm on each of the two responses (lines 444-481)
ParsePairResponses ==
    /\ pr_pc = "call"
    /\ pr_kind = "pair"
    /\ pr_out1' = validate_pair_with_llm(api_configured, EnHello, ArHello,
                                         Reply(pr_first))
    /\ pr_out2' = validate_pair_with_llm(api_configured, EnHello, ArHello,
                                         Reply(pr_second))
    /\ pr_pc' = "returned"
    /\ UNCHANGED <<pr_kind, pr_first, pr_second>>
    /\ UNCHANGED <<api_configured, slide_vars, structure_vars, sentence_vars,
                   oracle_vars, validate_vars, dictionary_vars, build_vars,
                   translate_vars,
                   mirror_vars,
                   similarity_vars>>

ParseNext ==
    \/ ParseSlideResponses
    \/ ParsePairResponses

SpecParse == ParseInit /\ [][ParseNext]_vars

(***************************************************************************)
(* Properties of the response parsing.                                     *)
(***************************************************************************)
\* C22: parsing of oracle responses for the keywords MATCH:, CONFIDENCE:,
\* REASON: and VALID: is case-insensitive and tolerant of incidental
\* whitespace: two responses that differ only in the letter case of these
\* keywords or in spaces around the colon give the same parsed
\* (isMatch, confidence, reason) from validate_slide_correspondence and the
\* same (valid, reason) from validate_pair_with_llm.
C22_SameReading ==
    pr_pc = "returned" => pr_out1 = pr_out2

\* What the code does give: the same verdicts, whatever the writing.
C22_SameVerdict ==
    pr_pc = "returned" =>
        /\ pr_kind = "slide" =>
              /\ pr_out1.is_match = pr_out2.is_match
              /\ REq(pr_out1.confidence, pr_out2.confidence)
        /\ pr_kind = "pair" => pr_out1.is_valid = pr_out2.is_valid

\* The reason is the explanation only for 'REASON:' in upper case with the
\* colon next to it; for any other writing it is the whole response.
C22_ReasonOfSecond ==
    pr_pc = "returned" =>
        /\ pr_out1.reason = val_explanation
        /\ pr_out2.reason = IF Contains(pr_second, kw_REASON)
                            THEN val_explanation ELSE pr_second


(***************************************************************************)
(* Translator: translate_text (translator.py) with its cache, over the     *)
(* dictionary store.                                                       *)
(***************************************************************************)
\* dictionary.py 87-96: the Arabic text of the first entry whose English
\* text is the stripped text ignoring case, or None.
find_exact_match(entries, text) ==
    LET found == Stored(entries, Strip(text))
    IN  IF found = {} THEN NoResult
        ELSE Text(entries[FirstOf(found)].arabic)

\* '[AR] ' + text: the translation made up without the API
mock_translation(text) == <<"[", "A", "R", "]", " ">> \o text

\* translator.py 56-101: the configuration test gives the mock, a reply its
\* stripped content, every caught failure the mock.
call_translation_api(configured, text, exchange) ==
    IF ~configured THEN mock_translation(text)
    ELSE IF exchange.kind = "ok" THEN Strip(exchange.content)
    ELSE mock_translation(text)

\* _translation_cache[key] = value
CachePut(cache, key, value) ==
    [k \in DOMAIN cache \cup {key} |-> IF k = key THEN value ELSE cache[k]]

\* translator.py 122-142: what translate_text returns and the cache it
\* leaves.
translate_text(configured, cache, entries, text, exchange) ==
    LET normalized == Strip(text)
    IN  IF normalized \in DOMAIN cache
        THEN [returned |-> cache[normalized], cache |-> cache]
        ELSE LET exact_match == find_exact_match(entries, normalized)
             IN  IF ~IsFalsy(exact_match)
                 THEN [returned |-> exact_match.text,
                       cache |-> CachePut(cache, normalized,
                                          exact_match.text)]
                 ELSE LET translation ==
                              call_translation_api(configured, normalized,
                                                   exchange)
                      IN  [returned |-> translation,
                           cache |-> CachePut(cache, normalized,
                                              translation)]

\* The arguments of translate_text: 'Hi' and ' hi '.
TranslateTexts ==
    {<<"H", "i">>, <<" ", "h", "i", " ">>}

\* What the translation request can meet: a failure or the reply 'salam'.
TranslationExchanges ==
    {[kind |-> "timeout", content |-> <<>>], Reply(<<"salam">>)}

TranslateInit ==
    /\ api_configured \in BOOLEAN
    /\ SlideIdle
    /\ StructureIdle
    /\ SentencesIdle
    /\ OracleIdle
    /\ ValidateIdle
    /\ BuildIdle
    /\ SimilarityIdle
    /\ MirrorIdle
    /\ ParseIdle
    /\ dict_entries \in {<<>>} \cup {<<entry>> : entry \in DictEntries}
    /\ dict_call = NoCall
    /\ dict_before = <<>>
    /\ dict_repeated = FALSE
    /\ tr_pc = "ready"
    /\ tr_cache = <<>>
    /\ tr_text = <<>>
    /\ tr_returned = <<>>
    /\ tr_store = <<>>

\* One call of translate_text.
TranslateText ==
    /\ tr_pc \in {"ready", "returned"}
    /\ \E text \in TranslateTexts, exchange \in TranslationExchanges :
        LET done == translate_text(api_configured, tr_cache, dict_entries,
                                   text, exchange)
        IN  /\ tr_text' = text
            /\ tr_returned' = done.returned
            /\ tr_cache' = done.cache
    /\ tr_store' = dict_entries
    /\ tr_pc' = "returned"
    /\ UNCHANGED <<api_configured, slide_vars, structure_vars, sentence_vars,
                   oracle_vars, validate_vars, dictionary_vars, build_vars,
                   parse_vars,
                   mirror_vars, similarity_vars>>

\* translator.py 145-148: clear_cache
ClearCache ==
    /\ tr_pc \in {"ready", "returned"}
    /\ tr_cache' = <<>>
    /\ UNCHANGED <<tr_pc, tr_text, tr_returned, tr_store>>
    /\ UNCHANGED <<api_configured, slide_vars, structure_vars, sentence_vars,
                   oracle_vars, validate_vars, dictionary_vars, build_vars,
                   parse_vars,
                   mirror_vars, similarity_vars>>

TranslateNext ==
    \/ TranslateText
    \/ ClearCache
    \/ AddEntry

SpecTranslate == TranslateInit /\ [][TranslateNext]_vars

(***************************************************************************)
(* Properties of the translator.                                           *)
(***************************************************************************)
\* C24: translate_text checks the dictionary for an exact match before it
\* checks the cache: whenever the dictionary holds an exact match for the
\* stripped text at the time of the call, translate_text returns that
\* dictionary translation, even if the cache already holds a different
\* value for the same text from an earlier call.
C24_DictionaryBeforeCache ==
    tr_pc = "returned" =>
        LET exact_match == find_exact_match(tr_store, Strip(tr_text))
        IN  ~IsFalsy(exact_match) => tr_returned = exact_match.text


(***************************************************************************)
(* Slide matcher on a target corpus wider than the top-three cut.          *)
(***************************************************************************)
MaxWideSlides == 4

\* One or two source slides, with a second one only when the oracle is not
\* configured (each consulted target then has one outcome), and a target
\* corpus of MaxWideSlides slides.
WideInit ==
    /\ api_configured \in BOOLEAN
    /\ english_slides \in
           {[n \in {1} |-> <<EnHello>>],
            [n \in {1, 2} |-> IF n = 1 THEN <<>> ELSE <<EnRevenue>>]}
           \cup (IF api_configured THEN {}
                 ELSE {[n \in {1, 2} |->
                           IF n = 1 THEN <<EnHello>> ELSE <<EnRevenue>>],
                       [n \in {2, 3} |-> <<EnHello>>]})
    /\ arabic_slides \in
           [1..MaxWideSlides -> {<<>>, <<ArHello>>, <<ArRevenue>>}]
    /\ pc = "next_slide"
    /\ en_pos = 1
    /\ candidates = <<>>
    /\ cand_pos = 1
    /\ best_match = NoMatch
    /\ best_confidence = RInt(0)
    /\ judged = <<>>
    /\ processed = <<>>
    /\ mappings = <<>>
    /\ used_ar_slides = {}
    /\ StructureIdle
    /\ SentencesIdle
    /\ OracleIdle
    /\ ValidateIdle
    /\ DictionaryIdle
    /\ BuildIdle
    /\ SimilarityIdle
    /\ MirrorIdle
    /\ ParseIdle
    /\ TranslateIdle

SpecWide == WideInit /\ [][Next]_vars

\* similarity + position_bonus of a target for the current source slide
C25_Score(ar_num) ==
    RAdd(fingerprint_similarity(
             get_slide_fingerprint(english_slides[CurrentEn]),
             get_slide_fingerprint(arabic_slides[ar_num])),
         position_bonus(CurrentEn, ar_num))

C25_Admissible(ar_num) ==
    /\ ar_num \notin used_ar_slides
    /\ arabic_slides[ar_num] # <<>>
    /\ RLt(R(3, 10), C25_Score(ar_num))

C25_Consulted == {candidates[k].ar_num : k \in 1..Len(candidates)}

C29_MatchConfidences ==
    \A k \in 1..Len(judged) :
        judged[k].is_match =>
            /\ IF judged[k].answered
               THEN \E c \in {R(9, 10), R(6, 10), R(5, 10), R(3, 10)} :
                        REq(judged[k].confidence, c)
               ELSE REq(judged[k].confidence, R(5, 10))
            /\ RLe(R(3, 10), judged[k].confidence)

\* When the candidates of a source slide have been judged and one of them
\* has isMatch=true, the slide is mapped.
C29_MappedWhenMatched ==
    (/\ pc = "judge"
     /\ pc' = "next_slide"
     /\ \E k \in 1..Len(judged) : judged[k].is_match)
    => /\ Len(mappings') = Len(mappings) + 1
       /\ mappings'[Len(mappings')].en_slide = CurrentEn
       /\ RLe(R(3, 10), mappings'[Len(mappings')].confidence)

\* C29: the 0.3 commit threshold of find_best_slide_matches never rejects a
\* match: every confidence that validate_slide_correspondence can return
\* together with isMatch=true (0.9, 0.6, 0.5 or 0.3 from the oracle, 0.5
\* from the fallback) is >= 0.3, so a source slide is mapped whenever at
\* least one of its judged candidates has isMatch=true.
C29_ThresholdNeverRejects ==
    []C29_MatchConfidences /\ [][C29_MappedWhenMatched]_vars

\* A source slide whose only confirmed candidate was answered 'low' (0.3)
\* has been mapped with that confidence.
C29_Witness ==
    /\ pc = "next_slide"
    /\ mappings # <<>>
    /\ REq(mappings[Len(mappings)].confidence, R(3, 10))
    /\ judged # <<>>
    /\ judged[1].en_num = mappings[Len(mappings)].en_slide
    /\ \A k \in 1..Len(judged) :
           judged[k].is_match => REq(judged[k].confidence, R(3, 10))


(***************************************************************************)
(* Shape mirroring: mirror_shape_position (pptx_translator.py 184-200).    *)
(***************************************************************************)
MaxSlideWidth == 10

MaxMirrors == 2

\* Mutant: the width of the shape is not subtracted.
mirrored_left_WithoutWidth(slide_width, current_left, current_width) ==
    LET new_left == slide_width - current_left
    IN  IF new_left >= 0 THEN new_left ELSE 0

\* Lines 192-197: the left the shape is given.
mirrored_left(slide_width, current_left, current_width) ==
    LET new_left == slide_width - current_left - current_width
    IN  IF new_left >= 0 THEN new_left ELSE 0

\* Shapes inside the slide, across its edges and outside it, and shapes
\* whose left and width are None (placeholders that inherit them).
MirrorInit ==
    /\ api_configured = FALSE
    /\ SlideIdle
    /\ StructureIdle
    /\ SentencesIdle
    /\ OracleIdle
    /\ ValidateIdle
    /\ DictionaryIdle
    /\ BuildIdle
    /\ SimilarityIdle
    /\ ParseIdle
    /\ TranslateIdle
    /\ mr_pc = "shape"
    /\ mr_slide_width \in (MaxSlideWidth - 1)..MaxSlideWidth
    /\ mr_positioned \in BOOLEAN
    /\ mr_left \in IF mr_positioned THEN (-2)..(MaxSlideWidth + 1) ELSE {0}
    /\ mr_width \in IF mr_positioned THEN 0..(MaxSlideWidth + 1) ELSE {0}
    /\ mr_original_left = mr_left
    /\ mr_count = 0

\* Lines 189-200: one call; the arithmetic on None raises, the exception is
\* caught and the shape is left as it is.
MirrorShapePosition ==
    /\ mr_pc = "shape"
    /\ mr_count < MaxMirrors
    /\ mr_left' = IF mr_positioned
                  THEN mirrored_left(mr_slide_width, mr_left, mr_width)
                  ELSE mr_left
    /\ mr_count' = mr_count + 1
    /\ UNCHANGED <<mr_pc, mr_slide_width, mr_positioned, mr_width,
                   mr_original_left>>
    /\ UNCHANGED <<api_configured, slide_vars, structure_vars, sentence_vars,
                   oracle_vars, validate_vars, dictionary_vars, build_vars,
                   parse_vars, translate_vars, similarity_vars>>

MirrorNext == MirrorShapePosition

SpecMirror == MirrorInit /\ [][MirrorNext]_vars

(***************************************************************************)
(* Properties of the shape mirroring.                                      *)
(***************************************************************************)
\* A call moves the shape to slide_width - left - width, or to 0 when that
\* is negative.
C27_Moved ==
    (mr_positioned /\ mr_count' = mr_count + 1) =>
        mr_left' = IF mr_slide_width - mr_left - mr_width < 0 THEN 0
                   ELSE mr_slide_width - mr_left - mr_width

C27_Inside(left) ==
    mr_positioned /\ left >= 0 /\ left + mr_width <= mr_slide_width

\* A shape inside the slide is inside it after a call and back at its left
\* after two; a shape at 1 of width 2 on a slide of width 10 is at 7 after
\* a call, and one at 7 is at 1.
C27_InsideAndBack ==
    C27_Inside(mr_original_left) =>
        /\ C27_Inside(mr_left)
        /\ mr_count = 2 => mr_left = mr_original_left
        /\ (mr_count = 1 /\ mr_slide_width = 10 /\ mr_width = 2) =>
               /\ mr_original_left = 1 => mr_left = 7
               /\ mr_original_left = 7 => mr_left = 1

\* C27: mirror_shape_position moves a shape to left = slide_width - left -
\* width, clamped to 0 when that value is negative, so that for every shape
\* lying fully inside the slide (left >= 0 and left + width <= slide_width)
\* the mirrored left is again inside the slide and mirroring twice restores
\* the original left (a shape at left 1 with width 2 on a width-10 slide
\* goes to 7, and one at 7 goes to 1).
C27_MirrorInvolution ==
    []C27_InsideAndBack /\ [][C27_Moved]_vars

\* The shape at left 1 of width 2 on the slide of width 10 was mirrored
\* twice and is at 1 again.
C27_Witness ==
    /\ mr_pc = "shape"
    /\ mr_positioned
    /\ mr_slide_width = 10
    /\ mr_original_left = 1
    /\ mr_width = 2
    /\ mr_count = 2
    /\ mr_left = 1

(***************************************************************************)
(* The pipeline: build_dictionary_from_parallel_pptx from the two corpora  *)
(* to the store.  find_best_slide_matches runs as the state machine above; *)
(* match_sentences_within_slides is taken as the function it computes.     *)
(***************************************************************************)
MaxDeckSlides == 2

MaxOracleSlides == 1

\* Lines 359-392: the matches read from the lines of a response.
RECURSIVE MatchesOfLines(_, _, _)
MatchesOfLines(en_texts, ar_texts, lines) ==
    IF lines = <<>> THEN <<>>
    ELSE LET read == read_match_line(Strip(Head(lines)))
             rest == MatchesOfLines(en_texts, ar_texts, Tail(lines))
         IN  IF /\ read.parsed
                /\ index_in_bounds(read.en_idx, en_texts)
                /\ index_in_bounds(read.ar_idx, ar_texts)
             THEN <<[english |-> en_texts[read.en_idx + 1],
                     arabic |-> ar_texts[read.ar_idx + 1],
                     en_index |-> read.en_idx,
                     ar_index |-> read.ar_idx,
                     confidence |-> read.confidence,
                     match_method |-> "llm_semantic"]>> \o rest
             ELSE rest

\* Lines 310-394, with what call_llm returned at line 350.
match_sentences_within_slides(en_texts, ar_texts, result) ==
    IF en_texts = <<>> \/ ar_texts = <<>> THEN <<>>
    ELSE IF uses_structure(result) THEN match_by_structure(en_texts, ar_texts)
    ELSE MatchesOfLines(en_texts, ar_texts,
                        Split(Strip(result.text), kw_newline))

\* Mutant: the slide confidence is left out of the product.
combined_confidence_SentenceOnly(slide_confidence, match_confidence) ==
    match_confidence

\* Line 545: combined_confidence = slide_confidence * match["confidence"]
combined_confidence(slide_confidence, match_confidence) ==
    RMul(slide_confidence, match_confidence)

\* Lines 534-557: the candidates of one slide mapping.
MappingCandidates(mapping, result) ==
    LET sentence_matches == match_sentences_within_slides(
                                mapping.en_texts, mapping.ar_texts, result)
    IN  [i \in 1..Len(sentence_matches) |->
            [english |-> sentence_matches[i].english,
             arabic |-> sentence_matches[i].arabic,
             en_slide |-> mapping.en_slide,
             ar_slide |-> mapping.ar_slide,
             confidence |-> combined_confidence(
                                mapping.confidence,
                                sentence_matches[i].confidence),
             alignment_method |-> sentence_matches[i].match_method,
             slide_match_confidence |-> mapping.confidence,
             sentence_match_confidence |-> sentence_matches[i].confidence,
             validated |-> FALSE,
             validation_reason |-> NoReason]]

\* Lines 533-557: the loop over the first n slide mappings; results[k] is
\* what call_llm returns for the k-th of them.
RECURSIVE align_with_heuristics(_, _, _)
align_with_heuristics(slide_mappings, results, n) ==
    IF n = 0 THEN <<>>
    ELSE align_with_heuristics(slide_mappings, results, n - 1)
         \o MappingCandidates(slide_mappings[n], results[n])

\* Lines 631-654: the candidates of one slide number both decks have.
PositionCandidates(en_texts, ar_texts, slide_num) ==
    LET same == Len(en_texts) = Len(ar_texts)
    IN  [i \in 1..Min2(Len(en_texts), Len(ar_texts)) |->
            [english |-> en_texts[i],
             arabic |-> ar_texts[i],
             en_slide |-> slide_num,
             ar_slide |-> slide_num,
             confidence |-> IF same THEN R(5, 10) ELSE R(3, 10),
             alignment_method |-> IF same THEN "position"
                                  ELSE "position_uncertain",
             validated |-> FALSE,
             validation_reason |-> NoReason]]

\* Lines 626-656: the loop over sorted(common_slides).
RECURSIVE PositionLoop(_, _, _)
PositionLoop(en_slides, ar_slides, nums) ==
    IF nums = <<>> THEN <<>>
    ELSE PositionCandidates(en_slides[Head(nums)], ar_slides[Head(nums)],
                            Head(nums))
         \o PositionLoop(en_slides, ar_slides, Tail(nums))

align_by_position(en_slides, ar_slides) ==
    PositionLoop(en_slides, ar_slides,
                 SortedSeq(DOMAIN en_slides \cap DOMAIN ar_slides))

\* The decks of the pipeline: a slide has one phrase or two, a source slide
\* possibly none.
DeckSlideIds == 1..MaxDeckSlides

EnDeckTexts == {<<>>, <<EnHello>>, <<EnHello, EnRevenue>>}

ArDeckTexts == {<<ArHello>>, <<ArHello, ArRevenue>>, <<ArLong>>}

Decks(Texts) == UNION {[ids -> Texts] : ids \in SUBSET DeckSlideIds}

\* What the oracle may answer to the phrase-alignment prompt of a mapping.
DeckSentenceExchanges ==
    {[kind |-> "timeout", content |-> <<>>]}
    \cup {Reply(JoinLines(lines)) :
            lines \in {<<Line_1_1_high, Line_2_2_plain>>,
                       <<Line_1_2_medium>>, <<Line_2_1_low>>}}

DeckSentenceResults ==
    [configured \in BOOLEAN |->
        {call_llm(configured, exchange) : exchange \in DeckSentenceExchanges}]

\* Lines 563-584: the arguments; use_heuristics decides which aligner runs,
\* and find_best_slide_matches is entered only by align_with_heuristics.
\* Without the oracle the decks have up to MaxDeckSlides slides, gaps in
\* the numbering included; with it they have up to MaxOracleSlides slides,
\* numbered from 1 without gaps.
PipelineInit ==
    /\ api_configured \in BOOLEAN
    /\ english_slides \in Decks(EnDeckTexts)
    /\ arabic_slides \in Decks(ArDeckTexts)
    /\ api_configured =>
           /\ DOMAIN english_slides \in {1..n : n \in 0..MaxOracleSlides}
           /\ DOMAIN arabic_slides \in {1..n : n \in 0..MaxOracleSlides}
    /\ bd_pc \in {"align_with_heuristics", "align_by_position"}
    /\ pc = IF bd_pc = "align_with_heuristics" THEN "next_slide" ELSE "idle"
    /\ en_pos = 1
    /\ candidates = <<>>
    /\ cand_pos = 1
    /\ best_match = NoMatch
    /\ best_confidence = RInt(0)
    /\ judged = <<>>
    /\ processed = <<>>
    /\ mappings = <<>>
    /\ used_ar_slides = {}
    /\ StructureIdle
    /\ SentencesIdle
    /\ OracleIdle
    /\ ValidateIdle
    /\ SimilarityIdle
    /\ MirrorIdle
    /\ TranslateIdle
    /\ ParseIdle
    /\ dict_entries = <<Entry(EnHello, ArLong, FALSE)>>
    /\ dict_call = NoCall
    /\ dict_before = <<>>
    /\ dict_repeated = FALSE
    /\ bd_validate \in BOOLEAN
    /\ bd_candidates = <<>>
    /\ bd_valid_entries = <<>>
    /\ bd_added_count = 0

\* Lines 584 and 528-560: align_with_heuristics, once the slide mappings
\* are there.
AlignWithHeuristics ==
    /\ bd_pc = "align_with_heuristics"
    /\ pc = "returned"
    /\ \E results \in [1..Len(mappings) ->
                          DeckSentenceResults[api_configured]] :
        bd_candidates' = align_with_heuristics(mappings, results,
                                               Len(mappings))
    /\ bd_pc' = "validate"
    /\ UNCHANGED <<bd_validate, bd_valid_entries, bd_added_count>>
    /\ UNCHANGED <<api_configured, slide_vars, structure_vars, sentence_vars,
                   oracle_vars, validate_vars, dictionary_vars,
                   parse_vars, translate_vars, mirror_vars, similarity_vars>>

\* Line 586: candidates = align_by_position(english_file, arabic_file)
AlignByPosition ==
    /\ bd_pc = "align_by_position"
    /\ bd_candidates' = align_by_position(english_slides, arabic_slides)
    /\ bd_pc' = "validate"
    /\ UNCHANGED <<bd_validate, bd_valid_entries, bd_added_count>>
    /\ UNCHANGED <<api_configured, slide_vars, structure_vars, sentence_vars,
                   oracle_vars, validate_vars, dictionary_vars,
                   parse_vars, translate_vars, mirror_vars, similarity_vars>>

PipelineNext ==
    \/ SkipEmptySlide
    \/ BeginSlide
    \/ JudgeCandidate
    \/ CommitSlide
    \/ ReturnMappings
    \/ AlignWithHeuristics
    \/ AlignByPosition
    \/ BuildValidate
    \/ BuildSkipValidation
    \/ BuildStore

SpecPipeline == PipelineInit /\ [][PipelineNext]_vars

(***************************************************************************)
(* Properties of the pipeline.                                             *)
(***************************************************************************)
C28_FromPosition(c) ==
    c.alignment_method \in {"position", "position_uncertain"}

C28_Unvalidated ==
    /\ \A i \in 1..Len(mappings) : REq(mappings[i].confidence, R(5, 10))
    /\ \A i \in 1..Len(bd_candidates) :
        LET c == bd_candidates[i]
        IN  /\ ~c.validated
            /\ RLt(c.confidence, R(7, 10))
            /\ ~C28_FromPosition(c) =>
                   /\ c.alignment_method = "structure_fallback"
                   /\ REq(c.slide_match_confidence, R(5, 10))
                   /\ RLe(c.sentence_match_confidence, R(4, 10))
    /\ bd_valid_entries = <<>>
    /\ bd_added_count = 0
    /\ build_result.validated_pairs = 0
    /\ dict_call = NoCall

C28_StoreKept == dict_entries' = dict_entries

\* C28: with the oracle not configured, every slide mapping has confidence
\* 0.5, every phrase match is structural with a confidence of at most 0.4,
\* every candidate has a combined confidence below 0.7 and is never
\* validated, validated_pairs is 0, and the store is not changed.
C28_UnconfiguredValidatesNothing ==
    /\ [](~api_configured => C28_Unvalidated)
    /\ [][~api_configured => C28_StoreKept]_vars

\* A finished run without the key, validation asked for: two structural
\* candidates of one mapped slide pair, both refused for the missing key.
C28_Witness ==
    /\ ~api_configured
    /\ bd_pc = "done"
    /\ bd_validate
    /\ Len(mappings) >= 1
    /\ Len(bd_candidates) = 2
    /\ \A i \in 1..2 :
        /\ bd_candidates[i].alignment_method = "structure_fallback"
        /\ bd_candidates[i].validation_reason = reason_api_not_configured
        /\ ~bd_candidates[i].validated

C30_Judged == {conf_low, conf_default, conf_medium, conf_high}

C30_IsOneOf(value, values) == \E v \in values : REq(value, v)

C30_BothHigh(slide_confidence, match_confidence) ==
    REq(slide_confidence, conf_high) /\ REq(match_confidence, conf_high)

\* The structural confidences, as hundredths up to 0.4.
C30_Structural == {R(k, 100) : k \in 0..40}

C30_Combinations ==
    \A slide_confidence \in C30_Judged :
        \A match_confidence \in C30_Judged \cup C30_Structural :
            ~C30_BothHigh(slide_confidence, match_confidence) =>
                RLt(combined_confidence(slide_confidence, match_confidence),
                    high_confidence)

C30_Candidates ==
    \A i \in 1..Len(bd_candidates) :
        LET c == bd_candidates[i]
        IN  ~C28_FromPosition(c) =>
            /\ C30_IsOneOf(c.slide_match_confidence, C30_Judged)
            /\ c.alignment_method = "llm_semantic" =>
                   C30_IsOneOf(c.sentence_match_confidence, C30_Judged)
            /\ c.alignment_method = "structure_fallback" =>
                   RLe(c.sentence_match_confidence, R(4, 10))
            /\ c.validation_reason = reason_high_confidence =>
                   C30_BothHigh(c.slide_match_confidence,
                                c.sentence_match_confidence)
            /\ ~C30_BothHigh(c.slide_match_confidence,
                             c.sentence_match_confidence) =>
                   RLt(c.confidence, high_confidence)

\* C30: a candidate of align_with_heuristics is validated by the
\* high-confidence short-circuit only when its slide confidence and its
\* phrase confidence are both 0.9; every other combination of the values
\* the two matchers produce gives a combined confidence below 0.7.
C30_ShortCircuitOnlyOnBothHigh == C30_Combinations /\ C30_Candidates

\* A finished run: the first candidate (0.9 * 0.9) validated by the
\* short-circuit, the second (0.9 * 0.5) put to the oracle.
C30_Witness ==
    /\ api_configured
    /\ bd_pc = "done"
    /\ Len(bd_candidates) = 2
    /\ bd_candidates[1].validated
    /\ bd_candidates[1].validation_reason = reason_high_confidence
    /\ C30_BothHigh(bd_candidates[1].slide_match_confidence,
                    bd_candidates[1].sentence_match_confidence)
    /\ REq(bd_candidates[2].slide_match_confidence, conf_high)
    /\ REq(bd_candidates[2].sentence_match_confidence, conf_default)
    /\ bd_candidates[2].validation_reason # reason_high_confidence
    /\ bd_candidates[2].validation_reason # NoReason

====
